---- MODULE Spec2Model ----
(***************************************************************************)
(* Model of the asynchronous task orchestration of the Dash chat app:      *)
(* the poll stores of services.task_queue (generation buffers, save        *)
(* statuses, history results), the worker pool that fills them, and the    *)
(* callbacks of app/dash_app.py (send_message, select_chat, new_chat,      *)
(* refresh_sessions, tick) that submit work and merge its results.         *)
(*                                                                         *)
(* services/task_queue.py and services/chat_service.py are imported by    *)
(* dash_app.py and are not among the sources at hand: the buffer, the      *)
(* stores, the worker pool and the save call follow the design document,   *)
(* the callbacks follow dash_app.py.                                       *)
(*                                                                         *)
(* Text is a sequence of characters (numbers of Alphabet); concatenation   *)
(* is \o.  A message id is a positive number handed out by                 *)
(* create_message_id; LoadedId stands for the fresh uuid4 a history load   *)
(* gives every loaded message, which is a key of no poll store.            *)
(***************************************************************************)
EXTENDS Integers, Sequences, FiniteSets, TLC

\* ------------------------------------------------------------------ bounds
MaxLen == 3
MaxChunk == 2
PoolSize == 2

Alphabet == {1, 2}
GenErrors == {"e1", "e2"}
None == "none"
NoChat == "nochat"
SESSIONS == "__sessions__"
ChatIds == {"A", "B"}
LoadedId == 0
FailedToSave == "Failed to save"
DbDown == "db down"

\* ------------------------------------------------------------------ text
RECURSIVE Flatten(_)
Flatten(ss) == IF ss = <<>> THEN <<>> ELSE Head(ss) \o Flatten(Tail(ss))

IsPrefix(s, t) == Len(s) <= Len(t) /\ SubSeq(t, 1, Len(s)) = s

RECURSIVE TextsOfLen(_)
TextsOfLen(n) ==
  IF n = 0 THEN {<<>>}
  ELSE {<<a>> \o t : a \in Alphabet, t \in TextsOfLen(n - 1)}

TextsUpTo(n) == UNION {TextsOfLen(k) : k \in 0..n}

Min(a, b) == IF a < b THEN a ELSE b

\* ---------------------------------------------------- generation buffer
EmptyBuffer == [chunks |-> <<>>, done |-> FALSE, error |-> None]

\* GenerationBuffer.append(chunk): the chunk goes to the end of the sequence.
\* (BufAppend_Front: a faulty variant that puts it first.)
BufAppend_Front(b, chunk) == [b EXCEPT !.chunks = <<chunk>> \o @]
BufAppend(b, chunk) == [b EXCEPT !.chunks = Append(@, chunk)]

\* GenerationBuffer.mark_done(error): the first call sets isDone and the
\* error; every later call is a no-op.  (MarkDone_Overwrite: a faulty
\* variant in which a later call replaces the error.)
MarkDone_Overwrite(b, err) == [b EXCEPT !.done = TRUE, !.error = err]
MarkDone(b, err) ==
  IF b.done THEN b ELSE [b EXCEPT !.done = TRUE, !.error = err]

\* GenerationBuffer.read_all(): the chunks so far, concatenated in order.
ReadAll(b) == Flatten(b.chunks)

\* Simulated streaming: the response cut into pieces of `size` characters,
\* in order; the last piece may be shorter.  (Split_DropShort: a faulty
\* variant that loses a last piece shorter than `size`.)
RECURSIVE Split_DropShort(_, _)
Split_DropShort(text, size) ==
  IF Len(text) < size THEN <<>>
  ELSE <<SubSeq(text, 1, size)>>
       \o Split_DropShort(SubSeq(text, size + 1, Len(text)), size)
RECURSIVE Split(_, _)
Split(text, size) ==
  IF text = <<>> THEN <<>>
  ELSE <<SubSeq(text, 1, Min(size, Len(text)))>>
       \o Split(SubSeq(text, Min(size, Len(text)) + 1, Len(text)), size)

\* The pieces a generation task appends for the returned text.
Pieces(text, stream, size) == IF stream THEN Split(text, size) ELSE <<text>>

\* ------------------------------------------------------------- state
VARIABLES
  buffers,     \* message id -> generation buffer
  saveStatus,  \* message id -> save status record (absent: not in DOMAIN)
  histResult,  \* load key -> [payload, seq] of the completed load
  latestLoad,  \* load key -> sequence number of its latest submission
  tasks,       \* submitted, unfinished tasks, oldest first; the pool's
               \* workers hold the first PoolSize of them
  nextTid,     \* number of the next submitted task
  runs,        \* task number -> how many times its work_fn was invoked
  outcome,     \* task number -> how its work_fn ended: [kind, key, err, text, seq]
  db,          \* the relational store: sessions and chat_history rows
  nextId,      \* create_message_id: the next message id
  ops,         \* callbacks the user and the sessions timer may still trigger
  chat,        \* client -> chat-store
  errors,      \* client -> errors-store
  sessions,    \* client -> sessions-store
  interval,    \* client -> the tick interval last emitted
  cache,       \* client -> chat-cache (chat id -> messages)
  log,         \* history: statuses written per id, statuses and loads merged
  rd,          \* the reader of one buffer: previous and last content read
  appendLog,   \* the chunks handed to append, in call order
  env,         \* the process environment: the CHAT_CONTEXT_LIMIT setting
  titles,      \* chat id -> title stored for the session
  result,      \* the last call noted: a title call with its inputs and the
               \* value returned, or a raced tick with what it read
  now,         \* the browser's clock (Date.now())
  cacheAt,     \* client -> chat id -> updatedAt of the chat's cache entry
  inflight,    \* client -> the tick callback whose outputs the browser has
               \* not applied yet
  deleted,     \* client -> the sessions confirm_delete took off its list
  input,       \* client -> the value of the chat-input box
  session,     \* the Streamlit app: st.session_state and AGENT_ENDPOINT
  graph        \* one run of the multi-agent graph: the node to run next, the
               \* AgentState, and what the run did so far

vars == <<buffers, saveStatus, histResult, latestLoad, tasks, nextTid,
          runs, outcome, db, nextId, ops, chat, errors, sessions, interval,
          cache, log, rd, appendLog, env, titles, result, now, cacheAt,
          inflight, deleted, input, session, graph>>

queueVars == <<buffers, saveStatus, histResult, latestLoad, tasks,
               nextTid, runs, outcome>>
clientVars == <<chat, errors, sessions, interval, cache>>
moreVars == <<inflight, deleted, input, session, graph>>
extraVars == <<env, titles, result, now, cacheAt, moreVars>>
readerVars == <<rd, appendLog, extraVars>>

Keys == ChatIds \cup {SESSIONS}

\* f with key k set to v, whether or not k was a key before.
Put(f, k, v) == [x \in DOMAIN f \cup {k} |-> IF x = k THEN v ELSE f[x]]
Has(f, k) == k \in DOMAIN f
EmptyMap == [x \in {} |-> None]

\* ------------------------------------------------------- task queue
BlankTask ==
  [kind |-> "none", tid |-> 0, key |-> None, seq |-> 0, stream |-> FALSE,
   chunk |-> 1, chat |-> NoChat, role |-> None, content |-> <<>>, order |-> 0,
   pc |-> "run", pieces |-> <<>>, history |-> <<>>, request |-> <<>>]

\* The tasks `ts` go to the end of the queue: submit_* returns right after.
SubmitAll(ts) ==
  /\ tasks' = tasks \o ts
  /\ nextTid' = nextTid + Len(ts)
  /\ runs' = [x \in DOMAIN runs \cup {ts[i].tid : i \in 1..Len(ts)} |->
                IF x \in DOMAIN runs THEN runs[x] ELSE 0]

GenTask(tid, id, stream, size) ==
  [BlankTask EXCEPT !.kind = "gen", !.tid = tid, !.key = id,
                    !.stream = stream, !.chunk = size]

\* A save task carries the arguments its work_fn closed over.
SaveTask(tid, id, chatId, role, content, order) ==
  [BlankTask EXCEPT !.kind = "save", !.tid = tid, !.key = id,
                    !.chat = chatId, !.role = role, !.content = content,
                    !.order = order]

\* A load task carries the sequence number of its submission for its key.
LoadTask(tid, key, seq) ==
  [BlankTask EXCEPT !.kind = "load", !.tid = tid, !.key = key, !.seq = seq]

\* The tasks the workers of the pool hold: each worker takes the oldest
\* waiting task as soon as it is free.
Held(i) == i \in 1..Min(PoolSize, Len(tasks))

\* The queue once the task at position i has ended, normally or by a
\* captured exception: the task is gone and its worker is free again.
\* (Without_Requeued: a faulty variant that queues the task again.)
Without_Requeued(q, i) ==
  SubSeq(q, 1, i - 1) \o SubSeq(q, i + 1, Len(q))
    \o <<[q[i] EXCEPT !.pc = "run", !.pieces = <<>>]>>
Without(q, i) == SubSeq(q, 1, i - 1) \o SubSeq(q, i + 1, Len(q))

\* submit_generation(message_id, work_fn, simulate_stream): the buffer of the
\* message is created and the task queued.
SubmitGeneration(id, stream, size) ==
  /\ buffers' = Put(buffers, id, EmptyBuffer)
  /\ SubmitAll(<<GenTask(nextTid, id, stream, size)>>)

\* AgentService.generate_bot_response, the request: CHAT_CONTEXT_LIMIT when
\* it is a positive integer, 5 otherwise; the last that many messages of the
\* history; those of them whose content is not empty or blank.
Unset == [kind |-> "unset", n |-> 0]
NotANumber == [kind |-> "text", n |-> 0]
Number(n) == [kind |-> "int", n |-> n]
Space == 3
DefaultContextLimit == 5

ContextLimit(setting) ==
  IF setting.kind = "int" /\ setting.n > 0 THEN setting.n
                                            ELSE DefaultContextLimit

Blank(content) == \A i \in 1..Len(content) : content[i] = Space

LastN(q, n) == SubSeq(q, IF Len(q) > n THEN Len(q) - n + 1 ELSE 1, Len(q))

BuildRequest(history, setting) ==
  SelectSeq(LastN(history, ContextLimit(setting)),
            LAMBDA m : ~Blank(m.content))

\* The generation task calls work_fn: it returns `text`, or raises `err`
\* (then text = <<>>).  A raise goes straight to mark_done(error).  The task
\* keeps the request work_fn posted, built from the messages it captured.
GenCall(i, text, err) ==
  LET t == tasks[i] IN
  /\ Held(i)
  /\ t.kind = "gen" /\ t.pc = "run"
  /\ runs' = [runs EXCEPT ![t.tid] = @ + 1]
  /\ IF err = None
       THEN /\ tasks' = [tasks EXCEPT ![i] =
                  [t EXCEPT !.pc = "append",
                            !.pieces = Pieces(text, t.stream, t.chunk),
                            !.history = <<>>,
                            !.request = BuildRequest(t.history, env.limit)]]
            /\ UNCHANGED buffers
       ELSE /\ buffers' = [buffers EXCEPT ![t.key] = MarkDone(@, err)]
            /\ tasks' = Without(tasks, i)
  /\ outcome' = Put(outcome, t.tid,
                  [kind |-> "gen", key |-> t.key, err |-> err, text |-> text,
                   seq |-> 0])
  /\ UNCHANGED <<saveStatus, histResult, latestLoad, nextTid, db, nextId, ops,
                 clientVars, log, readerVars>>

\* The generation task appends its next piece.
GenAppend(i) ==
  LET t == tasks[i] IN
  /\ Held(i)
  /\ t.kind = "gen" /\ t.pc = "append" /\ t.pieces # <<>>
  /\ buffers' = [buffers EXCEPT ![t.key] = BufAppend(@, Head(t.pieces))]
  /\ appendLog' = IF t.key = rd.id THEN Append(appendLog, Head(t.pieces))
                                   ELSE appendLog
  /\ tasks' = [tasks EXCEPT ![i] = [t EXCEPT !.pieces = Tail(@)]]
  /\ UNCHANGED <<saveStatus, histResult, latestLoad, nextTid, runs,
                 outcome, db, nextId, ops, clientVars, log, rd, extraVars>>

\* After the last piece the generation task calls mark_done().
GenMarkDone(i) ==
  LET t == tasks[i] IN
  /\ Held(i)
  /\ t.kind = "gen" /\ t.pc = "append" /\ t.pieces = <<>>
  /\ buffers' = [buffers EXCEPT ![t.key] = MarkDone(@, None)]
  /\ tasks' = Without(tasks, i)
  /\ UNCHANGED <<saveStatus, histResult, latestLoad, nextTid, runs,
                 outcome, db, nextId, ops, clientVars, log, readerVars>>

\* ------------------------------------------------------ relational store
User == "user"
Assistant == "assistant"

\* save_message_with_embedding(chat_id, role, content, order): one more
\* chat_history row, with the order the caller passed.
InsertRow(d, t) ==
  [d EXCEPT !.rows = Append(@, [chat |-> t.chat, role |-> t.role,
                                content |-> t.content, order |-> t.order])]

\* Stable sort of messages by order (msgs.sort(key=order)).
RECURSIVE InsertByOrder(_, _)
InsertByOrder(sorted, m) ==
  IF sorted = <<>> THEN <<m>>
  ELSE IF Head(sorted).order <= m.order
         THEN <<Head(sorted)>> \o InsertByOrder(Tail(sorted), m)
         ELSE <<m>> \o sorted

RECURSIVE SortByOrder(_)
SortByOrder(ms) ==
  IF ms = <<>> THEN <<>>
  ELSE InsertByOrder(SortByOrder(SubSeq(ms, 1, Len(ms) - 1)), ms[Len(ms)])

\* select_chat._load: the stored messages of the chat, each under a fresh id,
\* marked saved, sorted by order.
LoadHistory(d, chatId) ==
  LET rows == SelectSeq(d.rows, LAMBDA r : r.chat = chatId)
  IN  SortByOrder([i \in 1..Len(rows) |->
        [id |-> LoadedId, role |-> rows[i].role, content |-> rows[i].content,
         order |-> rows[i].order, saved |-> TRUE, saving |-> FALSE,
         error |-> None]])

\* refresh_sessions._load_sessions: the user's chats, most recent first.
LoadSessions(d) == d.sessions

\* --------------------------------------------- task queue: saves and loads
\* The status a save task writes: ok, or the text of the exception.
\* (SaveStatusOf_Ok: a faulty variant that swallows the exception.)
SaveStatusOf_Ok(err) == [ok |-> TRUE, error |-> None]
SaveStatusOf(err) == [ok |-> err = None, error |-> err]

\* The save task runs work_fn and writes the status under the message id.
SaveRun(i, err) ==
  LET t == tasks[i] IN
  /\ Held(i)
  /\ t.kind = "save"
  /\ runs' = [runs EXCEPT ![t.tid] = @ + 1]
  /\ outcome' = Put(outcome, t.tid,
                  [kind |-> "save", key |-> t.key, err |-> err, text |-> <<>>,
                   seq |-> 0])
  /\ db' = IF err = None THEN InsertRow(db, t) ELSE db
  /\ saveStatus' = Put(saveStatus, t.key, SaveStatusOf(err))
  /\ log' = [log EXCEPT !.written =
               Put(@, t.key, (IF Has(@, t.key) THEN @[t.key] ELSE <<>>)
                              \o <<[ok |-> err = None, error |-> err]>>)]
  /\ tasks' = Without(tasks, i)
  /\ UNCHANGED <<buffers, histResult, latestLoad, nextTid, nextId, ops,
                 clientVars, readerVars>>

\* submit_history_load numbers the submissions of a key; a completion is kept
\* only if no later submission for its key exists.  (IsLatest_Any: a faulty
\* variant that keeps every completion.)
IsLatest_Any(seq, latest) == TRUE
IsLatest(seq, latest) == seq = latest

\* A load whose work_fn raised stores nothing: the state it would have
\* replaced stays as it is.  (LoadStored_OnFailure: a faulty variant that
\* stores a result for a failed load as well.)
LoadStored_OnFailure(err, seq, latest) == IsLatest(seq, latest)
LoadStored(err, seq, latest) == err = None /\ IsLatest(seq, latest)

\* What select_chat._load does to the chat-stores: nothing, it returns the
\* messages it read and the queue stores them.  (LoadTouches_State: a faulty
\* variant that writes them into the chat-store of the clients on that chat.)
LoadTouches_State(ch, key, payload) ==
  [c \in DOMAIN ch |->
     IF ~ch[c].null /\ ch[c].cur = key
       THEN [ch[c] EXCEPT !.msgs = payload] ELSE ch[c]]
LoadTouches(ch, key, payload) == ch

\* The load task runs work_fn and writes the payload under its key.
LoadRun(i, err) ==
  LET t == tasks[i]
      payload == IF t.key = SESSIONS THEN LoadSessions(db)
                                     ELSE LoadHistory(db, t.key)
  IN
  /\ Held(i)
  /\ t.kind = "load"
  /\ runs' = [runs EXCEPT ![t.tid] = @ + 1]
  /\ outcome' = Put(outcome, t.tid,
                  [kind |-> "load", key |-> t.key, err |-> err, text |-> <<>>,
                   seq |-> t.seq])
  /\ histResult' =
       IF LoadStored(err, t.seq, latestLoad[t.key])
         THEN Put(histResult, t.key, [payload |-> payload, seq |-> t.seq])
         ELSE histResult
  /\ log' = [log EXCEPT !.done[t.key] =
               IF err = None THEN Append(@, t.seq) ELSE @]
  /\ tasks' = Without(tasks, i)
  /\ chat' = LoadTouches(chat, t.key, payload)
  /\ UNCHANGED <<buffers, saveStatus, latestLoad, nextTid, db, nextId, ops,
                 errors, sessions, interval, cache, readerVars>>

\* pop_save_status / pop_history_result: the store after the read.
PopStatus(store, ids) == [x \in DOMAIN store \ ids |-> store[x]]
PopResult(store, keys) == [x \in DOMAIN store \ keys |-> store[x]]

\* ------------------------------------------------------ render loop: content
\* tick, per assistant message with a buffer: the content becomes read_all()
\* when the two differ.  (TickContent_Delta: a faulty variant that takes
\* read_all() for the new chunks only.)
TickContent_Delta(content, b) ==
  IF ReadAll(b) # content THEN content \o ReadAll(b) ELSE content
TickContent(content, b) ==
  IF ReadAll(b) # content THEN ReadAll(b) ELSE content

\* ------------------------------------------- one buffer, writer and reader
FirstChat == "A"
NoClients == [c \in {} |-> None]
TheMessage == 1

\* No CHAT_CONTEXT_LIMIT in the environment, the stored chat untitled, an
\* empty chat-cache.
NewChatTitle == <<7>>
Clients == {"c1"}

\* The Streamlit session before a chat is chosen (lines 33-38 of app.py).
NoSession ==
  [cur |-> NoChat, chat_history |-> <<>>, chat_messages |-> <<>>,
   endpoint |-> TRUE]

\* The multi-agent graph not invoked.
NoRun ==
  [node |-> "idle", messages |-> <<>>, next_node |-> None,
   iteration_count |-> 0, ran |-> None, chose |-> None, before |-> None,
   workers |-> 0]

\* No tick callback under way.
NoTick == [on |-> FALSE, over |-> NoChat]

InitMore ==
  /\ inflight = [c \in Clients |-> NoTick]
  /\ deleted = [c \in Clients |-> {}]
  /\ input = [c \in Clients |-> <<>>]
  /\ session = NoSession
  /\ graph = NoRun

InitExtra ==
  /\ InitMore
  /\ env = [limit |-> Unset]
  /\ titles = [x \in {FirstChat} |-> NewChatTitle]
  /\ result = [fn |-> None]
  /\ now = 0
  /\ cacheAt = [c \in Clients |-> EmptyMap]

InitStores ==
  /\ InitExtra
  /\ buffers = EmptyMap /\ saveStatus = EmptyMap /\ histResult = EmptyMap
  /\ latestLoad = [k \in Keys |-> 0]
  /\ tasks = <<>>
  /\ nextTid = 1
  /\ runs = EmptyMap /\ outcome = EmptyMap
  /\ db = [sessions |-> <<FirstChat>>, rows |-> <<>>]
  /\ nextId = 1
  /\ log = [written |-> EmptyMap, saves |-> EmptyMap,
            done |-> [k \in Keys |-> <<>>], loads |-> [k \in Keys |-> <<>>]]

InitBuf ==
  /\ InitStores
  /\ chat = NoClients /\ errors = NoClients /\ sessions = NoClients
  /\ interval = NoClients /\ cache = NoClients
  /\ rd = [id |-> TheMessage, prev |-> <<>>, last |-> <<>>, snap |-> <<>>,
           again |-> "unset"]
  /\ appendLog = <<>>
  /\ ops = 0

\* submit_generation for the message, with either streaming mode.
BufSubmit ==
  /\ nextTid = 1
  /\ \E stream \in BOOLEAN, size \in 1..MaxChunk :
       SubmitGeneration(TheMessage, stream, size)
  /\ UNCHANGED <<saveStatus, histResult, latestLoad, outcome, db,
                 nextId, ops, clientVars, log, readerVars>>

\* The render loop reads the buffer of the message (tick, lines 635-645).
ReaderTick ==
  /\ Has(buffers, rd.id)
  /\ rd' = [rd EXCEPT !.prev = rd.last,
                      !.last = TickContent(rd.last, buffers[rd.id]),
                      !.snap = Flatten(appendLog)]
  /\ UNCHANGED <<queueVars, db, nextId, ops, clientVars, log, appendLog,
                 extraVars>>

\* A further mark_done on a buffer that is already done.
MarkDoneAgain(err) ==
  /\ Has(buffers, rd.id) /\ buffers[rd.id].done
  /\ buffers' = [buffers EXCEPT ![rd.id] = MarkDone(@, err)]
  /\ rd' = [rd EXCEPT !.again = err]
  /\ UNCHANGED <<saveStatus, histResult, latestLoad, tasks, nextTid,
                 runs, outcome, db, nextId, ops, clientVars, log, appendLog,
                 extraVars>>

NextBuf ==
  \/ BufSubmit
  \/ \E i \in 1..Len(tasks), text \in TextsUpTo(MaxLen) : GenCall(i, text, None)
  \/ \E i \in 1..Len(tasks), err \in GenErrors : GenCall(i, <<>>, err)
  \/ \E i \in 1..Len(tasks) : GenAppend(i)
  \/ \E i \in 1..Len(tasks) : GenMarkDone(i)
  \/ ReaderTick
  \/ \E err \in GenErrors \cup {None} : MarkDoneAgain(err)

SpecBuf == InitBuf /\ [][NextBuf]_vars

\* ------------------------------------------------------------ callbacks
MaxOps == 2
FastMs == 150
SlowMs == 2000
UserText == <<1>>
AppTexts == {<<>>, <<2>>}

\* chat-store before any callback wrote it (None).
NullChat == [null |-> TRUE, cur |-> NoChat, msgs |-> <<>>, loading |-> FALSE]
ChatState(cur, msgs, loading) ==
  [null |-> FALSE, cur |-> cur, msgs |-> msgs, loading |-> loading]

\* The chat-cache clientside callback: every chat-store written with a
\* current chat stores that chat's messages.
CacheAfter(ch, st) ==
  IF st.null \/ st.cur = NoChat THEN ch ELSE Put(ch, st.cur, st.msgs)

SeqToSet(q) == {q[i] : i \in 1..Len(q)}

\* submit_history_load(key, work_fn).
SubmitHistoryLoad(key) ==
  /\ latestLoad' = [latestLoad EXCEPT ![key] = @ + 1]
  /\ SubmitAll(<<LoadTask(nextTid, key, latestLoad[key] + 1)>>)

\* refresh_sessions: queue a sessions load, leave the store alone.
RefreshSessions(c) ==
  /\ ops > 0
  /\ ops' = ops - 1
  /\ SubmitHistoryLoad(SESSIONS)
  /\ UNCHANGED <<buffers, saveStatus, histResult, outcome, db, nextId,
                 clientVars, log, readerVars>>

\* new_chat: the session is created, selected with no messages, and put at
\* the front of the sessions list.
NewChat(c, newId) ==
  /\ ops > 0
  /\ ops' = ops - 1
  /\ newId \notin SeqToSet(db.sessions)
  /\ db' = [db EXCEPT !.sessions = <<newId>> \o @]
  /\ chat' = [chat EXCEPT ![c] = ChatState(newId, <<>>, FALSE)]
  /\ cache' = [cache EXCEPT ![c] = CacheAfter(@, chat'[c])]
  /\ sessions' = [sessions EXCEPT ![c] =
                    [set |-> TRUE, list |-> <<newId>> \o @.list]]
  /\ UNCHANGED <<queueVars, nextId, errors, interval, log, readerVars>>

\* select_chat: queue the history load of the chat; show its cached messages
\* when the cache entry is within its time to live, nothing otherwise; mark
\* the state loading.
SelectChat(c, id, fresh) ==
  /\ ops > 0
  /\ ops' = ops - 1
  /\ sessions[c].set /\ id \in SeqToSet(sessions[c].list)
  /\ SubmitHistoryLoad(id)
  /\ chat' = [chat EXCEPT ![c] =
       IF fresh /\ Has(cache[c], id)
         THEN ChatState(id, cache[c][id], TRUE)
         ELSE ChatState(id, <<>>, TRUE)]
  /\ cache' = [cache EXCEPT ![c] = CacheAfter(@, chat'[c])]
  /\ UNCHANGED <<buffers, saveStatus, histResult, outcome, db, nextId,
                 errors, sessions, interval, log, readerVars>>

\* send_message: next_order = max(order, default -1) + 1.  (NextOrder_Len: a
\* faulty variant that counts the messages instead.)
MaxOrder(ms) ==
  IF ms = <<>> THEN -1
  ELSE CHOOSE o \in {ms[i].order : i \in 1..Len(ms)} :
         \A j \in 1..Len(ms) : ms[j].order <= o
NextOrder_Len(ms) == Len(ms)
NextOrder(ms) == MaxOrder(ms) + 1

\* send_message.generate: the captured messages sorted by order, each with
\* its role and content.
Transcript(ms) ==
  [i \in 1..Len(ms) |-> [role |-> SortByOrder(ms)[i].role,
                         content |-> SortByOrder(ms)[i].content]]

UserMessage(id, text, order) ==
  [id |-> id, role |-> User, content |-> text, order |-> order,
   saved |-> FALSE, saving |-> TRUE, error |-> None]
AssistantMessage(id, order) ==
  [id |-> id, role |-> Assistant, content |-> <<>>, order |-> order,
   saved |-> FALSE, saving |-> FALSE, error |-> None]

\* send_message returns no_update for its three outputs when the text is
\* empty (None or ""), and when there is no chat state or no current chat.
\* (SendIgnored_NoChat: a faulty variant without the test of the text.)
SendIgnored_NoChat(text, st) == st.null \/ st.cur = NoChat
SendIgnored(text, st) == text = <<>> \/ st.null \/ st.cur = NoChat

\* send_message past its two tests: the user message and the assistant
\* placeholder are appended, the save of the first and the generation of the
\* second are queued, the input box is emptied.
SendAccepted(c, text) ==
  LET st == chat[c]
      n == NextOrder(st.msgs)
      uid == nextId
      aid == nextId + 1
      msgs == st.msgs \o <<UserMessage(uid, text, n), AssistantMessage(aid, n + 1)>>
  IN
  /\ ops > 0
  /\ ops' = ops - 1
  /\ nextId' = nextId + 2
  /\ buffers' = Put(buffers, aid, EmptyBuffer)
  /\ SubmitAll(<<SaveTask(nextTid, uid, st.cur, User, text, n),
                 [GenTask(nextTid + 1, aid, FALSE, 1)
                    EXCEPT !.history = Transcript(msgs)]>>)
  /\ chat' = [chat EXCEPT ![c] = ChatState(st.cur, msgs, FALSE)]
  /\ cache' = [cache EXCEPT ![c] = CacheAfter(@, chat'[c])]
  /\ input' = [input EXCEPT ![c] = <<>>]
  /\ UNCHANGED <<saveStatus, histResult, latestLoad, outcome, db,
                 errors, sessions, interval, log, rd, appendLog, env, titles,
                 result, now, cacheAt, inflight, deleted, session,
                 graph>>

\* send_message with a text and a current chat.
SendMessage(c, text) ==
  /\ ~SendIgnored(text, chat[c])
  /\ SendAccepted(c, text)

\* send_message on whatever the input box holds: nothing is returned for
\* the stores and the input when the call is ignored.
SendMessageCall(c) ==
  IF SendIgnored(input[c], chat[c])
    THEN /\ ops > 0
         /\ ops' = ops - 1
         /\ UNCHANGED <<queueVars, db, nextId, clientVars, log, readerVars>>
    ELSE SendAccepted(c, input[c])

\* ----------------------------------------------------------------- tick
\* A string in a condition: None and the empty string are false.
Truthy(e) == e # None /\ e # ""

\* tick, streaming loop, one message: content from read_all(), the buffer's
\* error attached once it is done, and saving set when its save is queued.
HasBuffer(m, bufs) == m.role = Assistant /\ Has(bufs, m.id)

StreamError(m, b) ==
  IF b.done /\ Truthy(b.error) /\ ~Truthy(m.error) THEN b.error ELSE m.error

\* The save of a finished generation is queued when the message has no
\* error, is not saved, has content and is not saving already.
\* (QueuesSave_Saved: a faulty variant that tests saved instead of not saved;
\* QueuesSave_NoDone: one that does not wait for the buffer to be done;
\* QueuesSave_NoContent: one that does not ask for content.)
QueuesSave_NoContent(m, bufs) ==
  /\ HasBuffer(m, bufs)
  /\ bufs[m.id].done
  /\ ~Truthy(StreamError(m, bufs[m.id]))
  /\ ~m.saved
  /\ ~m.saving
QueuesSave_NoDone(m, bufs) ==
  /\ HasBuffer(m, bufs)
  /\ ~Truthy(StreamError(m, bufs[m.id]))
  /\ ~m.saved
  /\ TickContent(m.content, bufs[m.id]) # <<>>
  /\ ~m.saving
QueuesSave_Saved(m, bufs) ==
  /\ HasBuffer(m, bufs)
  /\ bufs[m.id].done
  /\ ~Truthy(StreamError(m, bufs[m.id]))
  /\ m.saved
  /\ TickContent(m.content, bufs[m.id]) # <<>>
  /\ ~m.saving
QueuesSave(m, bufs) ==
  /\ HasBuffer(m, bufs)
  /\ bufs[m.id].done
  /\ ~Truthy(StreamError(m, bufs[m.id]))
  /\ ~m.saved
  /\ TickContent(m.content, bufs[m.id]) # <<>>
  /\ ~m.saving

Stream(m, bufs) ==
  IF ~HasBuffer(m, bufs) THEN m
  ELSE [m EXCEPT !.content = TickContent(m.content, bufs[m.id]),
                 !.error = StreamError(m, bufs[m.id]),
                 !.saving = IF QueuesSave(m, bufs) THEN TRUE ELSE @]

\* The save tasks the streaming loop queues, in message order.
RECURSIVE TickSaves(_, _, _, _, _)
TickSaves(ms, bufs, i, tid, cur) ==
  IF i > Len(ms) THEN <<>>
  ELSE IF QueuesSave(ms[i], bufs)
    THEN <<SaveTask(tid, ms[i].id, cur, Assistant,
                    Stream(ms[i], bufs).content, ms[i].order)>>
         \o TickSaves(ms, bufs, i + 1, tid + 1, cur)
    ELSE TickSaves(ms, bufs, i + 1, tid, cur)

\* tick, status loop, one message: a popped status sets saved, saving, error.
\* (MergeStatus_StaysSaving: a faulty variant in which a failed status leaves
\* the message saving.)
StatusError(st) == IF Truthy(st.error) THEN st.error ELSE FailedToSave
MergeStatus_StaysSaving(m, stat) ==
  IF ~Has(stat, m.id) THEN m
  ELSE IF stat[m.id].ok
    THEN [m EXCEPT !.saved = TRUE, !.saving = FALSE, !.error = None]
    ELSE [m EXCEPT !.saved = FALSE, !.error = StatusError(stat[m.id])]
MergeStatus(m, stat) ==
  IF ~Has(stat, m.id) THEN m
  ELSE IF stat[m.id].ok
    THEN [m EXCEPT !.saved = TRUE, !.saving = FALSE, !.error = None]
    ELSE [m EXCEPT !.saved = FALSE, !.saving = FALSE,
                   !.error = StatusError(stat[m.id])]

\* The toasts the status loop adds: one per failed status, in message order.
RECURSIVE SaveErrors(_, _)
SaveErrors(ms, stat) ==
  IF ms = <<>> THEN <<>>
  ELSE (IF Has(stat, Head(ms).id) /\ ~stat[Head(ms).id].ok
          THEN <<[messageId |-> Head(ms).id, stage |-> "save",
                  error |-> StatusError(stat[Head(ms).id])]>>
          ELSE <<>>)
       \o SaveErrors(Tail(ms), stat)

\* has_active_generation: a message whose buffer is not done.
ActiveGeneration(ms, bufs) ==
  \E i \in 1..Len(ms) : HasBuffer(ms[i], bufs) /\ ~bufs[ms[i].id].done

\* has_pending_save: a message with no status to pop, saving and not saved.
PendingSave(ms, stat) ==
  \E i \in 1..Len(ms) :
    ~Has(stat, ms[i].id) /\ ms[i].saving /\ ~ms[i].saved

\* The interval the tick asks for.  (NextInterval_NoSave: a faulty variant
\* that forgets the pending saves.)
NextInterval_NoSave(active, pending, loading) ==
  IF active \/ loading THEN FastMs ELSE SlowMs
NextInterval(active, pending, loading) ==
  IF active \/ pending \/ loading THEN FastMs ELSE SlowMs

\* Loaded sessions first, in loaded order, then the sessions of the store the
\* load did not return.  (MergeSessions_Replace: a faulty variant that drops
\* the latter; MergeSessions_StoreFirst: one that puts the sessions of the
\* store in front.)
RECURSIVE DedupFirst(_, _)
DedupFirst(q, seen) ==
  IF q = <<>> THEN <<>>
  ELSE (IF Head(q) \in seen THEN <<>> ELSE <<Head(q)>>)
       \o DedupFirst(Tail(q), seen \cup {Head(q)})
MergeSessions_Replace(loaded, existing) == loaded
MergeSessions_StoreFirst(loaded, existing) ==
  DedupFirst(existing, {})
    \o SelectSeq(loaded, LAMBDA x : x \notin SeqToSet(existing))
MergeSessions(loaded, existing) ==
  loaded \o SelectSeq(DedupFirst(existing, {}),
                      LAMBDA x : x \notin SeqToSet(loaded))

\* The status store after the status loop: pop_save_status for the id of
\* every message (get_save_status would leave the store as it is;
\* TickStatusStore_All: a faulty variant that pops every stored status).
TickStatusStore_Get(stat, ms) == stat
TickStatusStore_All(stat, ms) == EmptyMap
TickStatusStore(stat, ms) ==
  PopStatus(stat, {ms[i].id : i \in 1..Len(ms)})

\* The result store after the tick's pop_history_result calls: the sessions
\* key always, the current chat's key when a chat is selected.
TickPopKeys(st) ==
  {SESSIONS} \cup (IF ~st.null /\ st.cur # NoChat THEN {st.cur} ELSE {})
TickHistoryStore_Get(hist, st) == hist
TickHistoryStore(hist, st) == PopResult(hist, TickPopKeys(st))

\* A popped history result replaces the local messages (messages =
\* loaded_history).  (MergeHistory_Keep: a faulty variant that keeps the
\* local messages in front of the loaded ones.)
MergeHistory_Keep(local, loaded) == local \o loaded
MergeHistory(local, loaded) == loaded

\* The tick returns no_update for the stores only when nothing changed and no
\* sessions result was loaded.  (TickEmits_Always: a faulty variant that
\* emits on every tick.)
TickEmits_Always(changed, hasSess) == TRUE
TickEmits(changed, hasSess) == changed \/ hasSess

\* Everything one tick computes from the stores it was given.
TickOut(st, errs, sess, bufs, stat, hist, tid) ==
  LET hasSess == Has(hist, SESSIONS)
      hasHist == ~st.null /\ st.cur # NoChat /\ Has(hist, st.cur)
      keys == (IF hasSess THEN {SESSIONS} ELSE {})
                \cup (IF hasHist THEN {st.cur} ELSE {})
      msgs0 == IF hasHist THEN MergeHistory(st.msgs, hist[st.cur].payload)
                          ELSE st.msgs
      loading == st.loading /\ ~hasHist
      msgs1 == [i \in 1..Len(msgs0) |-> Stream(msgs0[i], bufs)]
      saves == TickSaves(msgs0, bufs, 1, tid, st.cur)
      msgs2 == [i \in 1..Len(msgs1) |-> MergeStatus(msgs1[i], stat)]
      ids == {msgs0[i].id : i \in 1..Len(msgs0)}
      changed == hasHist \/ msgs1 # msgs0 \/ (ids \cap DOMAIN stat) # {}
      emit == TickEmits(changed, hasSess)
  IN
  IF st.null
    THEN [chat |-> st, errors |-> errs,
          sessions |-> IF hasSess
                         THEN [set |-> TRUE, list |-> hist[SESSIONS].payload]
                         ELSE sess,
          interval |-> SlowMs, stat |-> stat,
          hist |-> TickHistoryStore(hist, st), submit |-> <<>>,
          emitted |-> FALSE, popKeys |-> IF hasSess THEN {SESSIONS} ELSE {},
          popIds |-> {}]
    ELSE [chat |-> IF emit THEN ChatState(st.cur, msgs2, FALSE) ELSE st,
          errors |-> IF emit THEN errs \o SaveErrors(msgs1, stat) ELSE errs,
          sessions |-> IF hasSess
                         THEN [set |-> TRUE,
                               list |-> MergeSessions(hist[SESSIONS].payload,
                                                      sess.list)]
                         ELSE sess,
          interval |-> NextInterval(ActiveGeneration(msgs0, bufs),
                                    PendingSave(msgs1, stat), loading),
          stat |-> TickStatusStore(stat, msgs1),
          hist |-> TickHistoryStore(hist, st),
          submit |-> saves, emitted |-> emit, popKeys |-> keys,
          popIds |-> ids \cap DOMAIN stat]

\* The tick callback of a client, on its stores and the poll stores.
Tick(c) ==
  LET o == TickOut(chat[c], errors[c], sessions[c], buffers, saveStatus,
                   histResult, nextTid)
  IN
  /\ chat' = [chat EXCEPT ![c] = o.chat]
  /\ cache' = [cache EXCEPT ![c] =
                 IF o.emitted THEN CacheAfter(@, o.chat) ELSE @]
  /\ errors' = [errors EXCEPT ![c] = o.errors]
  /\ sessions' = [sessions EXCEPT ![c] = o.sessions]
  /\ interval' = [interval EXCEPT ![c] = o.interval]
  /\ saveStatus' = o.stat
  /\ histResult' = o.hist
  /\ SubmitAll(o.submit)
  /\ log' = [log EXCEPT
       !.saves = [x \in DOMAIN @ \cup o.popIds |->
                    (IF x \in DOMAIN @ THEN @[x] ELSE <<>>)
                    \o (IF x \in o.popIds THEN <<saveStatus[x]>> ELSE <<>>)],
       !.loads = [k \in Keys |->
                    IF k \in o.popKeys THEN Append(@[k], histResult[k].seq)
                                       ELSE @[k]]]
  /\ UNCHANGED <<buffers, latestLoad, outcome, db, nextId, ops,
                 readerVars>>

\* Whether the tick of client c returns a chat state (and not no_update).
Emits(c) ==
  TickOut(chat[c], errors[c], sessions[c], buffers, saveStatus,
          histResult, nextTid).emitted

\* The user has one chat, stored and listed, and no chat selected yet.
InitClients ==
  /\ InitStores
  /\ chat = [c \in Clients |-> NullChat]
  /\ errors = [c \in Clients |-> <<>>]
  /\ sessions = [c \in Clients |-> [set |-> TRUE, list |-> <<FirstChat>>]]
  /\ interval = [c \in Clients |-> SlowMs]
  /\ cache = [c \in Clients |-> EmptyMap]
  /\ rd = [id |-> LoadedId, prev |-> <<>>, last |-> <<>>, snap |-> <<>>,
           again |-> "unset"]
  /\ appendLog = <<>>

Init == InitClients /\ ops = MaxOps

\* The same, with one more callback to go.
InitDeep == InitClients /\ ops = MaxOps + 1

Next ==
  \/ \E c \in DOMAIN chat : RefreshSessions(c)
  \/ \E c \in DOMAIN chat, id \in ChatIds : NewChat(c, id)
  \/ \E c \in DOMAIN chat, id \in ChatIds, fresh \in BOOLEAN :
       SelectChat(c, id, fresh)
  \/ \E c \in DOMAIN chat : SendMessage(c, UserText)
  \/ \E c \in DOMAIN chat : Tick(c)
  \/ \E i \in 1..Len(tasks), text \in AppTexts : GenCall(i, text, None)
  \/ \E i \in 1..Len(tasks) : GenCall(i, <<>>, "e1")
  \/ \E i \in 1..Len(tasks) : GenAppend(i)
  \/ \E i \in 1..Len(tasks) : GenMarkDone(i)
  \/ \E i \in 1..Len(tasks), err \in {None, DbDown} : SaveRun(i, err)
  \/ \E i \in 1..Len(tasks), err \in {None, DbDown} : LoadRun(i, err)

Spec == Init /\ [][Next]_vars

SpecDeep == InitDeep /\ [][Next]_vars

\* The user has the stored chat open, its empty history merged and cached,
\* and one callback fewer to go.
InitOpen ==
  /\ InitStores
  /\ chat = [c \in Clients |-> ChatState(FirstChat, <<>>, FALSE)]
  /\ errors = [c \in Clients |-> <<>>]
  /\ sessions = [c \in Clients |-> [set |-> TRUE, list |-> <<FirstChat>>]]
  /\ interval = [c \in Clients |-> SlowMs]
  /\ cache = [c \in Clients |-> Put(EmptyMap, FirstChat, <<>>)]
  /\ rd = [id |-> LoadedId, prev |-> <<>>, last |-> <<>>, snap |-> <<>>,
           again |-> "unset"]
  /\ appendLog = <<>>
  /\ ops = MaxOps - 1

SpecOpen == InitOpen /\ [][Next]_vars

\* ------------------------------------------- a tick racing a generation
\* The buffers as a tick sees them when the worker of generation task t
\* appends what it has left and calls mark_done() after the tick's read_all()
\* (line 642) and before its is_done check (line 647): the chunks of before,
\* done and error of after.
RECURSIVE AppendAll(_, _)
AppendAll(b, pieces) ==
  IF pieces = <<>> THEN b
  ELSE AppendAll(BufAppend(b, Head(pieces)), Tail(pieces))

SeenInRace(bufs, t) ==
  [bufs EXCEPT ![t.key] =
     [chunks |-> @.chunks,
      done |-> MarkDone(AppendAll(@, t.pieces), None).done,
      error |-> MarkDone(AppendAll(@, t.pieces), None).error]]

\* The tick of client c, raced by the generation task at position i of a
\* message the tick works on.  is_done was false at line 638, so the tick
\* asks for the fast interval.
TickRace(c, i) ==
  LET t == tasks[i]
      o == TickOut(chat[c], errors[c], sessions[c], SeenInRace(buffers, t),
                   saveStatus, histResult, nextTid)
      left == Without(tasks, i)
  IN
  /\ Held(i)
  /\ t.kind = "gen" /\ t.pc = "append"
  /\ ~chat[c].null
  /\ \E n \in 1..Len(chat[c].msgs) :
       chat[c].msgs[n].id = t.key /\ chat[c].msgs[n].role = Assistant
  /\ ~(chat[c].cur # NoChat /\ Has(histResult, chat[c].cur))
  /\ buffers' = [buffers EXCEPT ![t.key] = MarkDone(AppendAll(@, t.pieces), None)]
  /\ chat' = [chat EXCEPT ![c] = o.chat]
  /\ cache' = [cache EXCEPT ![c] =
                 IF o.emitted THEN CacheAfter(@, o.chat) ELSE @]
  /\ errors' = [errors EXCEPT ![c] = o.errors]
  /\ sessions' = [sessions EXCEPT ![c] = o.sessions]
  /\ interval' = [interval EXCEPT ![c] = FastMs]
  /\ saveStatus' = o.stat
  /\ histResult' = o.hist
  /\ tasks' = left \o o.submit
  /\ nextTid' = nextTid + Len(o.submit)
  /\ runs' = [x \in DOMAIN runs \cup {o.submit[n].tid : n \in 1..Len(o.submit)} |->
                IF x \in DOMAIN runs THEN runs[x] ELSE 0]
  /\ log' = [log EXCEPT
       !.saves = [x \in DOMAIN @ \cup o.popIds |->
                    (IF x \in DOMAIN @ THEN @[x] ELSE <<>>)
                    \o (IF x \in o.popIds THEN <<saveStatus[x]>> ELSE <<>>)],
       !.loads = [k \in Keys |->
                    IF k \in o.popKeys THEN Append(@[k], histResult[k].seq)
                                       ELSE @[k]]]
  /\ result' = [fn |-> "tick", id |-> t.key, read |-> ReadAll(buffers[t.key])]
  /\ UNCHANGED <<latestLoad, outcome, db, nextId, ops, rd, appendLog, env,
                 titles, now, cacheAt, moreVars>>

NextRace ==
  \/ Next
  \/ \E c \in DOMAIN chat, i \in 1..Len(tasks) : TickRace(c, i)

SpecRace == InitOpen /\ [][NextRace]_vars

\* ---------------------------------------------------- overlapping ticks
\* Two tick callbacks of a client run on the same chat-store, errors-store
\* and sessions-store: the interval fired again before the browser applied
\* the outputs of the first.  The server runs the first on the poll stores,
\* the second on what the first left there; the browser applies the outputs
\* of the first, then those of the second (no_update leaves a store as it
\* is; the first took the sessions result, so the second has none to emit).
TickOverlap(c) ==
  LET o1 == TickOut(chat[c], errors[c], sessions[c], buffers, saveStatus,
                    histResult, nextTid)
      o2 == TickOut(chat[c], errors[c], sessions[c], buffers, o1.stat,
                    o1.hist, nextTid + Len(o1.submit))
      last == IF o2.emitted THEN o2 ELSE o1
  IN
  /\ chat' = [chat EXCEPT ![c] = last.chat]
  /\ cache' = [cache EXCEPT ![c] =
                 IF o1.emitted \/ o2.emitted THEN CacheAfter(@, last.chat)
                                            ELSE @]
  /\ errors' = [errors EXCEPT ![c] = last.errors]
  /\ sessions' = [sessions EXCEPT ![c] = o1.sessions]
  /\ interval' = [interval EXCEPT ![c] = o2.interval]
  /\ saveStatus' = o2.stat
  /\ histResult' = o2.hist
  /\ SubmitAll(o1.submit \o o2.submit)
  /\ log' = [log EXCEPT
       !.saves = [x \in DOMAIN @ \cup o1.popIds |->
                    (IF x \in DOMAIN @ THEN @[x] ELSE <<>>)
                    \o (IF x \in o1.popIds THEN <<saveStatus[x]>> ELSE <<>>)],
       !.loads = [k \in Keys |->
                    IF k \in o1.popKeys THEN Append(@[k], histResult[k].seq)
                                        ELSE @[k]]]
  /\ UNCHANGED <<buffers, latestLoad, outcome, db, nextId, ops,
                 readerVars>>

NextOverlap ==
  \/ Next
  \/ \E c \in DOMAIN chat : TickOverlap(c)

SpecOverlap == Init /\ [][NextOverlap]_vars

\* ------------------------------- callbacks while a tick is under way
\* ChatService.delete_chat_session: the session leaves the store; when the
\* call raises, the store is as it was.
DeleteChatSession(d, id, err) ==
  IF err # None THEN d
  ELSE [d EXCEPT !.sessions = SelectSeq(@, LAMBDA x : x # id)]

\* confirm_delete of a session of the list: the backend call (an exception
\* is logged and swallowed), the list without the session, and an empty
\* chat state with no current chat when the current chat was the target.
ConfirmDeleteChat(st, id) ==
  IF ~st.null /\ st.cur = id THEN ChatState(NoChat, <<>>, FALSE) ELSE st

ConfirmDelete(c, id, err) ==
  /\ ops > 0
  /\ ops' = ops - 1
  /\ id \in SeqToSet(sessions[c].list)
  /\ db' = DeleteChatSession(db, id, err)
  /\ sessions' = [sessions EXCEPT ![c] =
                    [set |-> TRUE, list |-> SelectSeq(@.list, LAMBDA x : x # id)]]
  /\ chat' = [chat EXCEPT ![c] = ConfirmDeleteChat(@, id)]
  /\ cache' = [cache EXCEPT ![c] = CacheAfter(@, chat'[c])]
  /\ deleted' = [deleted EXCEPT ![c] = @ \cup {id}]
  /\ UNCHANGED <<queueVars, nextId, errors, interval, log, rd, appendLog,
                 env, titles, result, now, cacheAt, inflight, input, session,
                 graph>>

\* The tick callback of a client starts: the server runs it on the stores
\* the browser sent with the request and on the poll stores.  Its outputs
\* wait for the browser.
TickStart(c) ==
  LET o == TickOut(chat[c], errors[c], sessions[c], buffers, saveStatus,
                   histResult, nextTid)
  IN
  /\ ~inflight[c].on
  /\ inflight' = [inflight EXCEPT ![c] = [on |-> TRUE, out |-> o, over |-> NoChat]]
  /\ saveStatus' = o.stat
  /\ histResult' = o.hist
  /\ SubmitAll(o.submit)
  /\ log' = [log EXCEPT
       !.saves = [x \in DOMAIN @ \cup o.popIds |->
                    (IF x \in DOMAIN @ THEN @[x] ELSE <<>>)
                    \o (IF x \in o.popIds THEN <<saveStatus[x]>> ELSE <<>>)],
       !.loads = [k \in Keys |->
                    IF k \in o.popKeys THEN Append(@[k], histResult[k].seq)
                                       ELSE @[k]]]
  /\ UNCHANGED <<buffers, latestLoad, outcome, db, nextId, ops, clientVars,
                 rd, appendLog, env, titles, result, now, cacheAt, deleted,
                 input, session, graph>>

\* The browser applies the outputs of the tick under way: the stores the
\* tick returned a value for are overwritten, no_update leaves a store as it
\* is now.
TickApply(c) ==
  LET o == inflight[c].out IN
  /\ inflight[c].on
  /\ inflight' = [inflight EXCEPT ![c] = [on |-> FALSE, over |-> chat[c].cur]]
  /\ chat' = [chat EXCEPT ![c] = IF o.emitted THEN o.chat ELSE @]
  /\ cache' = [cache EXCEPT ![c] =
                 IF o.emitted THEN CacheAfter(@, o.chat) ELSE @]
  /\ errors' = [errors EXCEPT ![c] = IF o.emitted THEN o.errors ELSE @]
  /\ sessions' = [sessions EXCEPT ![c] =
                    IF SESSIONS \in o.popKeys THEN o.sessions ELSE @]
  /\ interval' = [interval EXCEPT ![c] = o.interval]
  /\ UNCHANGED <<queueVars, db, nextId, ops, log, rd, appendLog, env, titles,
                 result, now, cacheAt, deleted, input, session,
                 graph>>

\* The callbacks, confirm_delete among them, every tick in its two steps, and
\* the tasks of the pool with an endpoint that answers.
NextStale ==
  \/ \E c \in DOMAIN chat : RefreshSessions(c)
  \/ \E c \in DOMAIN chat, id \in ChatIds : NewChat(c, id)
  \/ \E c \in DOMAIN chat, id \in ChatIds : SelectChat(c, id, TRUE)
  \/ \E c \in DOMAIN chat : SendMessage(c, UserText)
  \/ \E c \in DOMAIN chat, id \in ChatIds, err \in {None, DbDown} :
       ConfirmDelete(c, id, err)
  \/ \E c \in DOMAIN chat : TickStart(c)
  \/ \E c \in DOMAIN chat : TickApply(c)
  \/ \E i \in 1..Len(tasks) : GenCall(i, <<2>>, None)
  \/ \E i \in 1..Len(tasks) : GenAppend(i)
  \/ \E i \in 1..Len(tasks) : GenMarkDone(i)
  \/ \E i \in 1..Len(tasks) : SaveRun(i, None)
  \/ \E i \in 1..Len(tasks) : LoadRun(i, None)

SpecStale == Init /\ [][NextStale]_vars

\* ------------------------------------------- the generation work_fn
\* AgentService.generate_bot_response: the reply of the endpoint, or, when
\* the call to the endpoint raises e, the text "Error calling model serving
\* endpoint: " followed by str(e).  It never raises.
ErrorPrefix == <<0>>
EndpointErrors == {<<1>>}
ErrorReply(e) == ErrorPrefix \o e
GenerateBotResponse(reply, e) == IF e = None THEN reply ELSE ErrorReply(e)

\* The callbacks and tasks of Next, and generations whose endpoint call fails.
NextAgent ==
  \/ Next
  \/ \E i \in 1..Len(tasks), e \in EndpointErrors :
       GenCall(i, GenerateBotResponse(<<>>, e), None)

SpecAgent == Init /\ [][NextAgent]_vars

\* --------------------------------------- send_message on a loaded chat
\* The stored messages a chat-store may hold after a history merge: any set
\* of orders up to MaxStored (a failed save leaves a gap), sorted by order.
MaxStored == 2

StoredMessage(o) ==
  [id |-> LoadedId, role |-> IF o % 2 = 0 THEN User ELSE Assistant,
   content |-> <<1>>, order |-> o, saved |-> TRUE, saving |-> FALSE,
   error |-> None]

RECURSIVE StoredList(_, _)
StoredList(os, from) ==
  IF from > MaxStored THEN <<>>
  ELSE (IF from \in os THEN <<StoredMessage(from)>> ELSE <<>>)
       \o StoredList(os, from + 1)

\* One client has the chat open with such messages; one send may follow.
InitStored ==
  /\ buffers = EmptyMap /\ saveStatus = EmptyMap /\ histResult = EmptyMap
  /\ latestLoad = [k \in Keys |-> 0]
  /\ tasks = <<>> /\ nextTid = 1
  /\ runs = EmptyMap /\ outcome = EmptyMap
  /\ nextId = 1
  /\ log = [written |-> EmptyMap, saves |-> EmptyMap,
            done |-> [k \in Keys |-> <<>>], loads |-> [k \in Keys |-> <<>>]]
  /\ \E os \in SUBSET (0..MaxStored) :
       /\ chat = [c \in Clients |-> ChatState(FirstChat, StoredList(os, 0), FALSE)]
       /\ db = [sessions |-> <<FirstChat>>,
                rows |-> [i \in 1..Len(StoredList(os, 0)) |->
                            [chat |-> FirstChat,
                             role |-> StoredList(os, 0)[i].role,
                             content |-> StoredList(os, 0)[i].content,
                             order |-> StoredList(os, 0)[i].order]]]
  /\ errors = [c \in Clients |-> <<>>]
  /\ sessions = [c \in Clients |-> [set |-> TRUE, list |-> <<FirstChat>>]]
  /\ interval = [c \in Clients |-> SlowMs]
  /\ cache = [c \in Clients |-> EmptyMap]
  /\ rd = [id |-> LoadedId, prev |-> <<>>, last |-> <<>>, snap |-> <<>>,
           again |-> "unset"]
  /\ appendLog = <<>>
  /\ ops = 1

InitSend == InitExtra /\ InitStored

NextSend ==
  \E c \in DOMAIN chat, text \in TextsUpTo(MaxLen) : SendMessage(c, text)

SpecSend == InitSend /\ [][NextSend]_vars

\* ----------------------------------------- send_message on any input
\* The chat states send_message may be called with: none yet, no current
\* chat (after confirm_delete of the current one), a chat with no messages
\* and a chat with a stored message.
InputChats ==
  {NullChat, ChatState(NoChat, <<>>, FALSE), ChatState(FirstChat, <<>>, FALSE),
   ChatState(FirstChat, <<StoredMessage(0)>>, FALSE)}

\* The send button is pressed MaxOps times, first on any text of the input
\* box, the empty one included.
InitInput ==
  /\ buffers = EmptyMap /\ saveStatus = EmptyMap /\ histResult = EmptyMap
  /\ latestLoad = [k \in Keys |-> 0]
  /\ tasks = <<>> /\ nextTid = 1
  /\ runs = EmptyMap /\ outcome = EmptyMap
  /\ db = [sessions |-> <<FirstChat>>, rows |-> <<>>]
  /\ nextId = 1
  /\ log = [written |-> EmptyMap, saves |-> EmptyMap,
            done |-> [k \in Keys |-> <<>>], loads |-> [k \in Keys |-> <<>>]]
  /\ \E st \in InputChats : chat = [c \in Clients |-> st]
  /\ errors = [c \in Clients |-> <<>>]
  /\ sessions = [c \in Clients |-> [set |-> TRUE, list |-> <<FirstChat>>]]
  /\ interval = [c \in Clients |-> SlowMs]
  /\ cache = [c \in Clients |-> EmptyMap]
  /\ rd = [id |-> LoadedId, prev |-> <<>>, last |-> <<>>, snap |-> <<>>,
           again |-> "unset"]
  /\ appendLog = <<>>
  /\ env = [limit |-> Unset]
  /\ titles = [x \in {FirstChat} |-> NewChatTitle]
  /\ result = [fn |-> None]
  /\ now = 0
  /\ cacheAt = [c \in Clients |-> EmptyMap]
  /\ inflight = [c \in Clients |-> NoTick]
  /\ deleted = [c \in Clients |-> {}]
  /\ session = NoSession
  /\ graph = NoRun
  /\ \E text \in TextsUpTo(MaxLen) : input = [c \in Clients |-> text]
  /\ ops = MaxOps

NextInput == \E c \in DOMAIN chat : SendMessageCall(c)

SpecInput == InitInput /\ [][NextInput]_vars

\* ------------------------------------- the request of a generation
\* The values CHAT_CONTEXT_LIMIT may have: missing, not a number, and the
\* integers from -1 to one above the default.
ContextSettings ==
  {Unset, NotANumber} \cup {Number(n) : n \in -1..(DefaultContextLimit + 1)}

\* The texts sent: plain, blank, and plain with a space.
SentTexts == {<<1>>, <<Space>>, <<1, Space>>}

InitContext ==
  /\ InitStored
  /\ InitMore
  /\ \E setting \in ContextSettings : env = [limit |-> setting]
  /\ titles = [x \in {FirstChat} |-> NewChatTitle]
  /\ result = [fn |-> None]
  /\ now = 0
  /\ cacheAt = [c \in Clients |-> EmptyMap]

\* One send, and the generation task that posts its request.
NextContext ==
  \/ \E c \in DOMAIN chat, text \in SentTexts : SendMessage(c, text)
  \/ \E i \in 1..Len(tasks) : GenCall(i, <<2>>, None)

SpecContext == InitContext /\ [][NextContext]_vars

\* ------------------------------------------------------ the chat-cache
\* The chat-cache clientside callback with its clock: the entry of the
\* current chat gets updatedAt = now, the entries older than the time to live
\* go, and when more than 12 are left only the 10 updated last stay.
\* (Entries are written at different milliseconds, so no two updatedAt are
\* equal and the sort has no ties.)
CacheTtlMs == 24 * 60 * 60 * 1000
CacheKeep == 10
CacheTrigger == 12
CacheChatIds == 1..(CacheTrigger + 1)

Restrict(f, ks) == [k \in ks |-> f[k]]

PruneStale(at, t) == Restrict(at, {k \in DOMAIN at : ~((t - at[k]) > CacheTtlMs)})

CapCache(at) ==
  IF Cardinality(DOMAIN at) > CacheTrigger
    THEN Restrict(at, {k \in DOMAIN at :
           Cardinality({j \in DOMAIN at : at[j] > at[k]}) < CacheKeep})
    ELSE at

CacheUpdate(at, chatId, t) == CapCache(PruneStale(Put(at, chatId, t), t))

\* A chat-store with current chat `id` is written dt milliseconds after the
\* last event, and the clientside callback runs.
CacheWrite(c, id, dt) ==
  /\ ops > 0
  /\ ops' = ops - 1
  /\ now' = now + dt
  /\ cacheAt' = [cacheAt EXCEPT ![c] = CacheUpdate(@, id, now + dt)]
  /\ UNCHANGED <<queueVars, db, nextId, clientVars, log, rd, appendLog,
                 env, titles, result, moreVars>>

\* The cache of a browser that opened n chats, one a millisecond, read
\* shortly or long after.
InitCache ==
  /\ buffers = EmptyMap /\ saveStatus = EmptyMap /\ histResult = EmptyMap
  /\ latestLoad = [k \in Keys |-> 0]
  /\ tasks = <<>> /\ nextTid = 1
  /\ runs = EmptyMap /\ outcome = EmptyMap
  /\ db = [sessions |-> <<FirstChat>>, rows |-> <<>>]
  /\ nextId = 1
  /\ log = [written |-> EmptyMap, saves |-> EmptyMap,
            done |-> [k \in Keys |-> <<>>], loads |-> [k \in Keys |-> <<>>]]
  /\ chat = [c \in Clients |-> NullChat]
  /\ errors = [c \in Clients |-> <<>>]
  /\ sessions = [c \in Clients |-> [set |-> TRUE, list |-> <<FirstChat>>]]
  /\ interval = [c \in Clients |-> SlowMs]
  /\ cache = [c \in Clients |-> EmptyMap]
  /\ rd = [id |-> LoadedId, prev |-> <<>>, last |-> <<>>, snap |-> <<>>,
           again |-> "unset"]
  /\ appendLog = <<>>
  /\ InitMore
  /\ env = [limit |-> Unset]
  /\ titles = [x \in {FirstChat} |-> NewChatTitle]
  /\ result = [fn |-> None]
  /\ \E n \in 0..CacheTrigger :
       cacheAt = [c \in Clients |-> [k \in 1..n |-> k]]
  /\ now \in {CacheTrigger, CacheTtlMs + CacheTrigger \div 2}
  /\ ops = MaxOps

NextCache ==
  \E c \in DOMAIN chat, id \in CacheChatIds, dt \in {1, CacheTtlMs} :
    CacheWrite(c, id, dt)

SpecCache == InitCache /\ [][NextCache]_vars

\* --------------------------------------------------- title generation
\* Texts here may hold a space (Space) and the three dots "..." (Dots, one
\* sign); NewChatTitle stands for the text "New Chat".
Dots == <<8>>
FallbackChars == 30
ContextRows == 4

\* What the title endpoint does with a call: it raises, or replies a text.
Raises == [raises |-> TRUE, text |-> <<>>]
Reply(text) == [raises |-> FALSE, text |-> text]

RECURSIVE StripLeft(_)
StripLeft(text) ==
  IF text # <<>> /\ Head(text) = Space THEN StripLeft(Tail(text)) ELSE text

RECURSIVE StripRight(_)
StripRight(text) ==
  IF text # <<>> /\ text[Len(text)] = Space
    THEN StripRight(SubSeq(text, 1, Len(text) - 1)) ELSE text

Strip(text) == StripLeft(StripRight(text))

\* generate_title_with_llama: the stripped reply of the endpoint, "New Chat"
\* when it is empty or when the call raised.  (The quote, prefix, 15-word and
\* 60-sign clean-up leaves the short replies drawn here as they are.)
GenerateTitleWithLlama(llm) ==
  IF llm.raises \/ Strip(llm.text) = <<>> THEN NewChatTitle
                                          ELSE Strip(llm.text)

\* The except branch of generate_chat_title: the first user message, cut to
\* 30 signs and "..." when it is longer.
FallbackTitle(content) ==
  IF Len(content) > FallbackChars
    THEN SubSeq(content, 1, FallbackChars) \o Dots ELSE content

ChatRows(d, id) ==
  LET rows == SelectSeq(d.rows, LAMBDA r : r.chat = id)
  IN  SortByOrder([i \in 1..Len(rows) |-> rows[i]])

UserRows(d, id) == SelectSeq(ChatRows(d, id), LAMBDA r : r.role = User)

\* The first ContextRows messages of the chat, the context of the title.
TitleContext(d, id) ==
  SubSeq(ChatRows(d, id), 1, Min(ContextRows, Len(ChatRows(d, id))))

\* generate_chat_title(session_id) -> [stored, title]: what it stores as the
\* session's title (stored = FALSE: nothing) and what it returns.  `llm` is
\* the endpoint's reply or Raises; dbErr says that a query or the commit of
\* the try block raised, fbErr that one of the except block did.
ChatTitle(d, id, llm, dbErr, fbErr) ==
  IF ~dbErr
    THEN IF Len(TitleContext(d, id)) < 2
           THEN [stored |-> FALSE, title |-> NewChatTitle]
           ELSE [stored |-> TRUE, title |-> GenerateTitleWithLlama(llm)]
    ELSE IF ~fbErr /\ UserRows(d, id) # <<>>
           THEN [stored |-> TRUE,
                 title |-> FallbackTitle(UserRows(d, id)[1].content)]
           ELSE [stored |-> FALSE, title |-> NewChatTitle]

\* ai_rename_chat calls generate_chat_title for the chat.
GenerateChatTitle(id, llm, dbErr, fbErr) ==
  LET r == ChatTitle(db, id, llm, dbErr, fbErr) IN
  /\ result.fn = None
  /\ titles' = IF r.stored THEN [titles EXCEPT ![id] = r.title] ELSE titles
  /\ result' = [fn |-> "generate_chat_title", chat |-> id, llm |-> llm,
                dbErr |-> dbErr, fbErr |-> fbErr, title |-> r.title]
  /\ UNCHANGED <<queueVars, db, nextId, ops, clientVars, log, rd, appendLog,
                 env, now, cacheAt, moreVars>>

\* The chats title generation is asked for: up to ContextRows + 1 stored
\* messages, user and assistant in turn, the first one short, of exactly
\* FallbackChars signs, or longer.
Repeat(x, n) == [i \in 1..n |-> x]
FirstTexts == {Repeat(1, 1), Repeat(1, FallbackChars),
               Repeat(1, FallbackChars + 1)}
LlmReplies == {Raises, Reply(<<>>), Reply(<<Space>>),
               Reply(<<Space, 2, Space>>)}

InitTitle ==
  /\ InitExtra
  /\ buffers = EmptyMap /\ saveStatus = EmptyMap /\ histResult = EmptyMap
  /\ latestLoad = [k \in Keys |-> 0]
  /\ tasks = <<>> /\ nextTid = 1
  /\ runs = EmptyMap /\ outcome = EmptyMap
  /\ nextId = 1
  /\ log = [written |-> EmptyMap, saves |-> EmptyMap,
            done |-> [k \in Keys |-> <<>>], loads |-> [k \in Keys |-> <<>>]]
  /\ \E n \in 0..(ContextRows + 1), first \in FirstTexts :
       db = [sessions |-> <<FirstChat>>,
             rows |-> [i \in 1..n |->
                         [chat |-> FirstChat,
                          role |-> IF i % 2 = 1 THEN User ELSE Assistant,
                          content |-> IF i = 1 THEN first ELSE <<2>>,
                          order |-> i - 1]]]
  /\ chat = [c \in Clients |-> ChatState(FirstChat, <<>>, FALSE)]
  /\ errors = [c \in Clients |-> <<>>]
  /\ sessions = [c \in Clients |-> [set |-> TRUE, list |-> <<FirstChat>>]]
  /\ interval = [c \in Clients |-> SlowMs]
  /\ cache = [c \in Clients |-> EmptyMap]
  /\ rd = [id |-> LoadedId, prev |-> <<>>, last |-> <<>>, snap |-> <<>>,
           again |-> "unset"]
  /\ appendLog = <<>>
  /\ ops = 0

NextTitle ==
  \E llm \in LlmReplies, dbErr \in BOOLEAN, fbErr \in BOOLEAN :
    GenerateChatTitle(FirstChat, llm, dbErr, fbErr)

SpecTitle == InitTitle /\ [][NextTitle]_vars

\* ------------------------------------------------- the Streamlit app
System == "system"
SystemPrompt == <<9>>
NotConfigured == <<0, 0>>
Prompts == {<<1>>, <<2>>}

\* load_chat_history: the rows of the chat by message_order.
LoadChatHistory(d, id) == ChatRows(d, id)

\* The ChatMessage list built from loaded rows: role and content of each.
ChatMessages(history) ==
  [i \in 1..Len(history) |->
     [role |-> history[i].role, content |-> history[i].content]]

\* get_next_message_order: the highest message_order of the chat plus one,
\* 1 for a chat with no rows.
GetNextMessageOrder(d, id) ==
  IF ChatRows(d, id) = <<>> THEN 1
  ELSE ChatRows(d, id)[Len(ChatRows(d, id))].order + 1

\* save_message: one more row.  (Its title generation from the third
\* message on touches the session's title only.)
SaveMessage(d, id, role, content, order) ==
  [d EXCEPT !.rows = Append(@, [chat |-> id, role |-> role,
                                content |-> content, order |-> order])]

\* generate_bot_response(messages) of app.py: without AGENT_ENDPOINT it
\* returns an error text at once; otherwise it inserts the system prompt at
\* position 0 of the list it was given, posts the list and returns the
\* reply, or the error text when the call raised e.  The list is the
\* caller's: `messages` is what it holds after the call.
InsertSystem(messages) ==
  <<[role |-> System, content |-> SystemPrompt]>> \o messages

AppGenerateBotResponse(messages, endpoint, reply, e) ==
  IF ~endpoint
    THEN [messages |-> messages, sent |-> FALSE, request |-> <<>>,
          returned |-> NotConfigured]
    ELSE [messages |-> InsertSystem(messages), sent |-> TRUE,
          request |-> InsertSystem(messages),
          returned |-> IF e = None THEN reply ELSE ErrorReply(e)]

\* The top of the main panel on every script run: with a current chat and an
\* empty chat_history, the history is loaded and chat_messages rebuilt.
Rerun(s, d) ==
  IF s.cur # NoChat /\ s.chat_history = <<>>
    THEN [s EXCEPT !.chat_history = LoadChatHistory(d, s.cur),
                   !.chat_messages = ChatMessages(LoadChatHistory(d, s.cur))]
    ELSE s

\* The "Start New Chat" button.
StartNewChat(newId) ==
  /\ ops > 0
  /\ ops' = ops - 1
  /\ newId \notin SeqToSet(db.sessions)
  /\ db' = [db EXCEPT !.sessions = <<newId>> \o @]
  /\ session' = Rerun([session EXCEPT !.cur = newId, !.chat_history = <<>>,
                                      !.chat_messages = <<>>], db')
  /\ UNCHANGED <<queueVars, nextId, clientVars, log, rd, appendLog, env,
                 titles, result, now, cacheAt, inflight, deleted, input,
                 graph>>

\* The button of a listed chat: the history is loaded and chat_messages
\* rebuilt from it.
OpenChat(id) ==
  /\ ops > 0
  /\ ops' = ops - 1
  /\ id \in SeqToSet(db.sessions)
  /\ session' = Rerun([session EXCEPT
                         !.cur = id,
                         !.chat_history = LoadChatHistory(db, id),
                         !.chat_messages = ChatMessages(LoadChatHistory(db, id))],
                      db)
  /\ UNCHANGED <<queueVars, db, nextId, clientVars, log, rd, appendLog, env,
                 titles, result, now, cacheAt, inflight, deleted, input,
                 graph>>

\* The chat input handler, one turn: the prompt is saved and appended,
\* generate_bot_response runs on st.session_state.chat_messages, its answer
\* is saved and appended, the history is loaded again, the script reruns.
ChatInput(prompt, reply, e) ==
  LET cur == session.cur
      n == GetNextMessageOrder(db, cur)
      d1 == SaveMessage(db, cur, User, prompt, n)
      m1 == Append(session.chat_messages, [role |-> User, content |-> prompt])
      g == AppGenerateBotResponse(m1, session.endpoint, reply, e)
      d2 == SaveMessage(d1, cur, Assistant, g.returned, n + 1)
      m2 == Append(g.messages, [role |-> Assistant, content |-> g.returned])
  IN
  /\ ops > 0
  /\ ops' = ops - 1
  /\ cur # NoChat
  /\ db' = d2
  /\ session' = Rerun([session EXCEPT !.chat_messages = m2,
                                      !.chat_history = LoadChatHistory(d2, cur)],
                      d2)
  /\ result' = [fn |-> "generate_bot_response", sent |-> g.sent,
                request |-> g.request, returned |-> g.returned]
  /\ UNCHANGED <<queueVars, nextId, clientVars, log, rd, appendLog, env,
                 titles, now, cacheAt, inflight, deleted, input, graph>>

\* The user has the stored chat open, with up to MaxStored stored messages,
\* and AGENT_ENDPOINT set or not.
InitStreamlit ==
  /\ buffers = EmptyMap /\ saveStatus = EmptyMap /\ histResult = EmptyMap
  /\ latestLoad = [k \in Keys |-> 0]
  /\ tasks = <<>> /\ nextTid = 1
  /\ runs = EmptyMap /\ outcome = EmptyMap
  /\ nextId = 1
  /\ log = [written |-> EmptyMap, saves |-> EmptyMap,
            done |-> [k \in Keys |-> <<>>], loads |-> [k \in Keys |-> <<>>]]
  /\ \E n \in 0..MaxStored :
       db = [sessions |-> <<FirstChat>>,
             rows |-> [i \in 1..n |->
                         [chat |-> FirstChat,
                          role |-> IF i % 2 = 1 THEN User ELSE Assistant,
                          content |-> <<1>>, order |-> i]]]
  /\ \E endpoint \in BOOLEAN :
       session = Rerun([NoSession EXCEPT !.cur = FirstChat,
                                         !.endpoint = endpoint], db)
  /\ chat = [c \in Clients |-> NullChat]
  /\ errors = [c \in Clients |-> <<>>]
  /\ sessions = [c \in Clients |-> [set |-> TRUE, list |-> <<FirstChat>>]]
  /\ interval = [c \in Clients |-> SlowMs]
  /\ cache = [c \in Clients |-> EmptyMap]
  /\ rd = [id |-> LoadedId, prev |-> <<>>, last |-> <<>>, snap |-> <<>>,
           again |-> "unset"]
  /\ appendLog = <<>>
  /\ env = [limit |-> Unset]
  /\ titles = [x \in {FirstChat} |-> NewChatTitle]
  /\ result = [fn |-> None]
  /\ now = 0
  /\ cacheAt = [c \in Clients |-> EmptyMap]
  /\ inflight = [c \in Clients |-> NoTick]
  /\ deleted = [c \in Clients |-> {}]
  /\ input = [c \in Clients |-> <<>>]
  /\ graph = NoRun
  /\ ops = MaxOps

NextStreamlit ==
  \/ \E id \in ChatIds : StartNewChat(id)
  \/ \E id \in ChatIds : OpenChat(id)
  \/ \E prompt \in Prompts : ChatInput(prompt, <<2>>, None)
  \/ \E prompt \in Prompts, e \in EndpointErrors : ChatInput(prompt, <<>>, e)

SpecStreamlit == InitStreamlit /\ [][NextStreamlit]_vars

\* ------------------------------------------- the multi-agent graph
MaxIterations == 3
Workers == {"Genie", "General", "Coder"}
FinishNode == "FINISH"
Options == {FinishNode} \cup Workers
EndNode == "__end__"

\* supervisor_agent(state), with `choice` the next_node the model returns
\* when it is asked: the update of the state (iteration_count as it is when
\* the update does not hold one), and whether the model was asked.
\* (SupervisorAgent_LateLimit: a faulty variant that allows one more
\* iteration.)
SupervisorAgent_LateLimit(st, choice) ==
  LET count == st.iteration_count + 1 IN
  IF count > MaxIterations + 1
    THEN [next_node |-> FinishNode, iteration_count |-> st.iteration_count,
          asked |-> FALSE]
  ELSE IF st.next_node = choice
    THEN [next_node |-> FinishNode, iteration_count |-> st.iteration_count,
          asked |-> TRUE]
  ELSE [next_node |-> choice, iteration_count |-> count, asked |-> TRUE]
SupervisorAgent(st, choice) ==
  LET count == st.iteration_count + 1 IN
  IF count > MaxIterations
    THEN [next_node |-> FinishNode, iteration_count |-> st.iteration_count,
          asked |-> FALSE]
  ELSE IF st.next_node = choice
    THEN [next_node |-> FinishNode, iteration_count |-> st.iteration_count,
          asked |-> TRUE]
  ELSE [next_node |-> choice, iteration_count |-> count, asked |-> TRUE]

\* The conditional edges of the supervisor: a worker by its name, FINISH to
\* final_answer.
Route(next_node) ==
  IF next_node = FinishNode THEN "final_answer" ELSE next_node

\* The supervisor node runs and the graph follows its conditional edge.
Supervisor(choice) ==
  LET u == SupervisorAgent(graph, choice) IN
  /\ graph.node = "supervisor"
  /\ graph' = [graph EXCEPT !.next_node = u.next_node,
                            !.iteration_count = u.iteration_count,
                            !.node = Route(u.next_node),
                            !.ran = "supervisor",
                            !.chose = IF u.asked THEN choice ELSE None,
                            !.before = graph.next_node]
  /\ UNCHANGED <<queueVars, db, nextId, ops, clientVars, log, rd, appendLog,
                 env, titles, result, now, cacheAt, inflight, deleted, input,
                 session>>

\* A worker node runs: its answer is appended under its name, and its edge
\* leads back to the supervisor.
AgentNode(name) ==
  /\ graph.node = name
  /\ graph' = [graph EXCEPT !.messages = Append(@, name),
                            !.node = "supervisor",
                            !.ran = name,
                            !.workers = @ + 1]
  /\ UNCHANGED <<queueVars, db, nextId, ops, clientVars, log, rd, appendLog,
                 env, titles, result, now, cacheAt, inflight, deleted, input,
                 session>>

\* final_answer runs: the answer is appended, and its edge leads to END.
FinalAnswer ==
  /\ graph.node = "final_answer"
  /\ graph' = [graph EXCEPT !.messages = Append(@, "final_answer"),
                            !.node = EndNode,
                            !.ran = "final_answer"]
  /\ UNCHANGED <<queueVars, db, nextId, ops, clientVars, log, rd, appendLog,
                 env, titles, result, now, cacheAt, inflight, deleted, input,
                 session>>

\* predict: the graph is invoked at its entry point on a request of up to
\* MaxLen messages, with no next_node and no iteration_count.
InitGraph ==
  /\ buffers = EmptyMap /\ saveStatus = EmptyMap /\ histResult = EmptyMap
  /\ latestLoad = [k \in Keys |-> 0]
  /\ tasks = <<>> /\ nextTid = 1
  /\ runs = EmptyMap /\ outcome = EmptyMap
  /\ db = [sessions |-> <<FirstChat>>, rows |-> <<>>]
  /\ nextId = 1
  /\ log = [written |-> EmptyMap, saves |-> EmptyMap,
            done |-> [k \in Keys |-> <<>>], loads |-> [k \in Keys |-> <<>>]]
  /\ chat = [c \in Clients |-> NullChat]
  /\ errors = [c \in Clients |-> <<>>]
  /\ sessions = [c \in Clients |-> [set |-> TRUE, list |-> <<FirstChat>>]]
  /\ interval = [c \in Clients |-> SlowMs]
  /\ cache = [c \in Clients |-> EmptyMap]
  /\ rd = [id |-> LoadedId, prev |-> <<>>, last |-> <<>>, snap |-> <<>>,
           again |-> "unset"]
  /\ appendLog = <<>>
  /\ env = [limit |-> Unset]
  /\ titles = [x \in {FirstChat} |-> NewChatTitle]
  /\ result = [fn |-> None]
  /\ now = 0
  /\ cacheAt = [c \in Clients |-> EmptyMap]
  /\ inflight = [c \in Clients |-> NoTick]
  /\ deleted = [c \in Clients |-> {}]
  /\ input = [c \in Clients |-> <<>>]
  /\ session = NoSession
  /\ ops = 0
  /\ \E n \in 1..MaxLen :
       graph = [NoRun EXCEPT !.node = "supervisor",
                             !.messages = [i \in 1..n |-> User]]

NextGraph ==
  \/ \E choice \in Options : Supervisor(choice)
  \/ \E name \in Workers : AgentNode(name)
  \/ FinalAnswer

\* The graph executor runs the next node as long as there is one.
SpecGraph == InitGraph /\ [][NextGraph]_vars /\ WF_vars(NextGraph)

\* ================================================================ claims
\* A task whose worker has let go of it.
Finished(tid) == \A i \in 1..Len(tasks) : tasks[i].tid # tid

\* C1: with one writer appending and the render loop reading in any
\* interleaving, every content read has the previous one as a prefix and
\* equals the concatenation of the chunks appended so far, in arrival order.
C1_MonotonicReads == IsPrefix(rd.prev, rd.last) /\ rd.last = rd.snap

\* C1 witness: the reader read a non-empty partial text between two appends
\* and a longer one after the second.
C1_Witness ==
  /\ Len(appendLog) >= 2
  /\ rd.prev # <<>> /\ rd.prev # rd.last /\ rd.last = Flatten(appendLog)

\* C2: once a buffer is done it stays done and keeps the error recorded by
\* the first mark_done, whatever later mark_done calls pass.
C2_MarkDoneIdempotent ==
  [][\A id \in DOMAIN buffers :
       buffers[id].done =>
         /\ id \in DOMAIN buffers'
         /\ buffers'[id].done
         /\ buffers'[id].error = buffers[id].error]_vars

\* C2 witness: a later mark_done passed an error other than the recorded one.
C2_Witness ==
  /\ Has(buffers, rd.id) /\ buffers[rd.id].done
  /\ buffers[rd.id].error \in GenErrors
  /\ rd.again \in GenErrors /\ rd.again # buffers[rd.id].error

\* C9: a finished generation task whose work_fn returned T leaves its buffer
\* with read_all() = T, done and no error; one whose work_fn raised leaves it
\* with no chunk, done and the exception text as error.
C9_GenerationResult ==
  \A tid \in DOMAIN outcome :
    (outcome[tid].kind = "gen" /\ Finished(tid)) =>
      LET o == outcome[tid]
          b == buffers[o.key]
      IN  IF o.err = None
            THEN ReadAll(b) = o.text /\ b.done /\ b.error = None
            ELSE b.chunks = <<>> /\ b.done /\ b.error = o.err

\* C9 witness: append("Hel"), append("lo"), mark_done(None): two chunks, done,
\* no error, and the whole text read back.
C9_Witness ==
  \E tid \in DOMAIN outcome :
    /\ outcome[tid].kind = "gen" /\ Finished(tid) /\ outcome[tid].err = None
    /\ Len(buffers[outcome[tid].key].chunks) = 2
    /\ Len(outcome[tid].text) = 3
    /\ buffers[outcome[tid].key].done

\* C10: while a streaming generation task still has pieces to append (or has
\* not yet called mark_done) its buffer is not done, every piece is non-empty
\* and at most the chunk size long, and what is appended followed by what is
\* left is the full response; a failed call appends nothing.
C10_SimulatedStreaming ==
  /\ \A j \in 1..Len(tasks) :
       (tasks[j].kind = "gen" /\ tasks[j].pc = "append" /\ tasks[j].stream) =>
         LET t == tasks[j]
             b == buffers[t.key]
         IN  /\ ~b.done
             /\ ReadAll(b) \o Flatten(t.pieces) = outcome[t.tid].text
             /\ \A i \in 1..Len(t.pieces) :
                  Len(t.pieces[i]) \in 1..t.chunk
  /\ \A tid \in DOMAIN outcome :
       (outcome[tid].kind = "gen" /\ outcome[tid].err # None) =>
         buffers[outcome[tid].key].chunks = <<>>

\* C10 witness: a streaming task in mid-response, one piece appended and a
\* shorter last piece still to come.
C10_Witness ==
  \E j \in 1..Len(tasks) :
    /\ tasks[j].kind = "gen" /\ tasks[j].pc = "append" /\ tasks[j].stream
    /\ tasks[j].chunk = 2
    /\ Len(buffers[tasks[j].key].chunks) = 1
    /\ Len(tasks[j].pieces) = 1 /\ Len(tasks[j].pieces[1]) = 1

\* ---------------------------------------------------- claims on the app
Merged(id) == IF Has(log.saves, id) THEN log.saves[id] ELSE <<>>
Last(q) == q[Len(q)]

\* C3: a completed save is handed to a tick at most once: for every message
\* id, the statuses merged by ticks plus the one still stored never outnumber
\* the statuses written; and a tick never merges the same completed load of
\* a key twice, nor is a merged load still stored.
C3_PopOnce ==
  /\ \A id \in DOMAIN log.written :
       Len(Merged(id)) + (IF Has(saveStatus, id) THEN 1 ELSE 0)
         <= Len(log.written[id])
  /\ \A id \in DOMAIN log.saves : Has(log.written, id)
  /\ \A k \in Keys :
       /\ \A i, j \in 1..Len(log.loads[k]) :
            i < j => log.loads[k][i] # log.loads[k][j]
       /\ Has(histResult, k) =>
            \A i \in 1..Len(log.loads[k]) : log.loads[k][i] # histResult[k].seq

\* C3 witness: a save status was popped and merged, its slot is empty, and
\* a history load of the chat was merged as well.
C3_Witness ==
  /\ \E id \in DOMAIN log.saves :
       Len(log.saves[id]) = 1 /\ ~Has(saveStatus, id)
  /\ \E k \in ChatIds : Len(log.loads[k]) = 1 /\ ~Has(histResult, k)

\* C4: the status of the latest completed save of a message id is what the
\* store holds, or, once popped, what the last tick merged for it; a work_fn
\* that raised gives ok = false with the exception's text; and every toast
\* comes from such a status.
C4_SaveFailureCaptured ==
  /\ \A id \in DOMAIN log.written :
       LET last == Last(log.written[id]) IN
       /\ (~last.ok) => last.error = DbDown
       /\ IF Has(saveStatus, id)
            THEN saveStatus[id] = last
            ELSE Merged(id) # <<>> /\ Last(Merged(id)) = last
  /\ \A c \in DOMAIN errors : \A i \in 1..Len(errors[c]) :
       /\ Has(log.written, errors[c][i].messageId)
       /\ \E j \in 1..Len(log.written[errors[c][i].messageId]) :
            ~log.written[errors[c][i].messageId][j].ok

\* C4 witness: a save raised "db down", its status was popped exactly once
\* and the slot is empty again.
C4_Witness ==
  \E id \in DOMAIN log.written :
    /\ log.written[id] = <<[ok |-> FALSE, error |-> DbDown]>>
    /\ Merged(id) = <<[ok |-> FALSE, error |-> DbDown]>>
    /\ ~Has(saveStatus, id)

\* C5: a load of a key that completed after a later submission of that key
\* had completed is never the stored result and is never merged by a tick;
\* the ticks merge the loads of a key in submission order.
C5_StaleResultDiscarded ==
  \A k \in Keys :
    /\ Has(histResult, k) =>
         \A j \in 1..Len(log.done[k]) :
           (histResult[k].seq < log.done[k][j]) =>
             \E n \in 1..Len(log.done[k]) :
               n < j /\ log.done[k][n] = histResult[k].seq
    /\ \A i, j \in 1..Len(log.loads[k]) :
         i < j => log.loads[k][i] < log.loads[k][j]
    /\ \A i \in 1..Len(log.loads[k]) : \A j \in 1..Len(log.done[k]) :
         \* a merged load was the newest completed one when it was stored
         (log.loads[k][i] < log.done[k][j]) =>
           \E n \in 1..Len(log.done[k]) :
             n < j /\ log.done[k][n] = log.loads[k][i]

\* C5 witness: two loads of one key, the second completed first, the first
\* after it, and the stored result is the second's.
C5_Witness ==
  \E k \in Keys :
    /\ log.done[k] = <<2, 1>>
    /\ Has(histResult, k) /\ histResult[k].seq = 2

\* C6: no two messages of a client's chat state share an order, and no two
\* stored messages of one chat share an order.
C6_OrderInvariant ==
  /\ \A c \in DOMAIN chat : \A i, j \in 1..Len(chat[c].msgs) :
       i # j => chat[c].msgs[i].order # chat[c].msgs[j].order
  /\ \A i, j \in 1..Len(db.rows) :
       (i # j /\ db.rows[i].chat = db.rows[j].chat) =>
         db.rows[i].order # db.rows[j].order

\* C6 in the store: two stored messages of one chat share an order, each
\* saved by its own send_message.
C6_Witness ==
  \E i, j \in 1..Len(db.rows) :
    /\ i # j
    /\ db.rows[i].chat = db.rows[j].chat
    /\ db.rows[i].order = db.rows[j].order
    /\ db.rows[i].role = User /\ db.rows[j].role = User

\* C7: the interval a tick emits is the fast one exactly when, after its
\* merge, an assistant message of the state has a buffer the tick read as
\* not done, or a message is saving and not saved, or the state the tick
\* worked on is still marked loading (it was loading and this tick merged
\* no history); otherwise it is the slow one.
C7_AdaptiveInterval ==
  [][\A c \in DOMAIN chat :
       Tick(c) =>
         LET ms == chat'[c].msgs
             cur == chat[c].cur
             mergedHistory == cur # NoChat /\ log'.loads[cur] # log.loads[cur]
         IN  (interval'[c] = FastMs) <=>
               \/ \E i \in 1..Len(ms) :
                    /\ ms[i].role = Assistant
                    /\ Has(buffers, ms[i].id)
                    /\ ~buffers[ms[i].id].done
               \/ \E i \in 1..Len(ms) : ms[i].saving /\ ~ms[i].saved
               \/ chat[c].loading /\ ~mergedHistory]_vars

\* C7 witness: an assistant message whose buffer is done and whose save
\* status was popped successfully, nothing else pending, interval slow.
C7_Witness ==
  \E c \in DOMAIN chat :
    /\ interval[c] = SlowMs
    /\ chat[c].msgs # <<>>
    /\ \A i \in 1..Len(chat[c].msgs) : chat[c].msgs[i].saved
    /\ \E i \in 1..Len(chat[c].msgs) :
         /\ chat[c].msgs[i].role = Assistant
         /\ Has(buffers, chat[c].msgs[i].id)
         /\ buffers[chat[c].msgs[i].id].done
         /\ Merged(chat[c].msgs[i].id) = <<[ok |-> TRUE, error |-> None]>>

\* C8: no submitted work_fn is invoked twice; a task whose work_fn raised has
\* ended (its worker is free again) and its failure is in the buffer of its
\* message or among the statuses written for it.
C8_AtMostOnce ==
  /\ \A tid \in DOMAIN runs : runs[tid] <= 1
  /\ \A tid \in DOMAIN outcome :
       outcome[tid].err # None =>
         /\ Finished(tid)
         /\ outcome[tid].kind = "gen" =>
              /\ buffers[outcome[tid].key].done
              /\ buffers[outcome[tid].key].error = outcome[tid].err
         /\ outcome[tid].kind = "save" =>
              /\ Has(log.written, outcome[tid].key)
              /\ \E j \in 1..Len(log.written[outcome[tid].key]) :
                   log.written[outcome[tid].key][j].error = outcome[tid].err

\* C8 witness: three tasks were run, each once, by a pool of two workers, and
\* the first of them raised.
C8_Witness ==
  /\ Cardinality({tid \in DOMAIN runs : runs[tid] = 1}) >= 3
  /\ Has(outcome, 1) /\ outcome[1].err # None
  /\ tasks = <<>>

\* ------------------------------------------------- claims on one tick
\* The messages a tick of client c works on: the history result of the
\* current chat when one is stored, the messages of the chat-store otherwise.
Working(c) ==
  IF ~chat[c].null /\ chat[c].cur # NoChat /\ Has(histResult, chat[c].cur)
    THEN histResult[chat[c].cur].payload
    ELSE chat[c].msgs

\* The save tasks a step submits.
Submitted == {tasks'[j] : j \in {n \in 1..Len(tasks') : tasks'[n].tid >= nextTid}}

\* The message at position i is an assistant message whose buffer is done
\* with no error and that is neither saved nor saving.
DoneUnsaved(ms, i) ==
  /\ ms[i].role = Assistant
  /\ Has(buffers, ms[i].id)
  /\ buffers[ms[i].id].done /\ buffers[ms[i].id].error = None
  /\ ~ms[i].saved /\ ~ms[i].saving

\* The tick of client c submits a save for position i and marks it saving.
SavesAt(c, ms, i) ==
  /\ \E s \in Submitted :
       /\ s.kind = "save" /\ s.key = ms[i].id /\ s.role = Assistant
       /\ s.content = ReadAll(buffers[ms[i].id]) /\ s.order = ms[i].order
       /\ s.chat = chat[c].cur
  /\ Len(chat'[c].msgs) = Len(ms)
  /\ chat'[c].msgs[i].id = ms[i].id
  /\ chat'[c].msgs[i].saving

\* C11 as stated: every tick submits a save for every assistant message whose
\* buffer is done with no error and that is neither saved nor saving, an
\* empty response included.
C11_SaveOnDone ==
  [][\A c \in DOMAIN chat :
       (Tick(c) /\ ~chat[c].null) =>
         \A i \in 1..Len(Working(c)) :
           DoneUnsaved(Working(c), i) => SavesAt(c, Working(c), i)]_vars

\* C11 amended: the same for the messages that carry no error themselves and
\* whose content, once read from the buffer, is not empty.
C11_SaveOnDoneWithContent ==
  [][\A c \in DOMAIN chat :
       (Tick(c) /\ ~chat[c].null) =>
         \A i \in 1..Len(Working(c)) :
           (/\ DoneUnsaved(Working(c), i)
            /\ ~Truthy(Working(c)[i].error)
            /\ ReadAll(buffers[Working(c)[i].id]) # <<>>)
             => SavesAt(c, Working(c), i)]_vars

\* C11 witness: a tick queued the save of a finished reply and marked the
\* message saving.
C11_Witness ==
  \E c \in DOMAIN chat : \E i \in 1..Len(chat[c].msgs) :
    /\ chat[c].msgs[i].role = Assistant /\ chat[c].msgs[i].saving
    /\ chat[c].msgs[i].content # <<>>
    /\ \E j \in 1..Len(tasks) :
         tasks[j].kind = "save" /\ tasks[j].key = chat[c].msgs[i].id

\* What client c's tick appends to the errors-store.
Toasts(c) == SubSeq(errors'[c], Len(errors[c]) + 1, Len(errors'[c]))

\* C12: in every tick, a message of the state whose save status is stored has
\* the status popped and becomes saved, not saving, no error when the status
\* is ok, and not saved, not saving, with the status error ("Failed to save"
\* for a status without error text) when it is not;
\* the failure adds exactly one toast for the message id, a success none; a
\* message with no stored status keeps its saved flag, a user message with no
\* stored status is left as it was, and no other status leaves the store.
C12_StatusMerge ==
  [][\A c \in DOMAIN chat :
       (Tick(c) /\ ~chat[c].null) =>
         LET w == Working(c)
             ids == {w[i].id : i \in 1..Len(w)}
         IN
         /\ DOMAIN saveStatus' = DOMAIN saveStatus \ ids
         /\ Len(errors'[c]) >= Len(errors[c])
         /\ SubSeq(errors'[c], 1, Len(errors[c])) = errors[c]
         /\ \A i \in 1..Len(w) :
              LET toasts == {j \in 1..Len(Toasts(c)) :
                               Toasts(c)[j].messageId = w[i].id}
              IN
              IF Has(saveStatus, w[i].id)
                THEN LET s == saveStatus[w[i].id]
                         m == chat'[c].msgs[i]
                         shown == IF s.error \in {None, ""}
                                    THEN FailedToSave ELSE s.error
                     IN
                     /\ Len(chat'[c].msgs) = Len(w)
                     /\ m.id = w[i].id /\ m.role = w[i].role
                     /\ m.order = w[i].order
                     /\ ~m.saving
                     /\ m.saved = s.ok
                     /\ m.error = (IF s.ok THEN None ELSE shown)
                     /\ Cardinality(toasts) = (IF s.ok THEN 0 ELSE 1)
                     /\ \A j \in toasts :
                          Toasts(c)[j] = [messageId |-> w[i].id,
                                          stage |-> "save", error |-> shown]
                ELSE /\ toasts = {}
                     /\ Len(chat'[c].msgs) = Len(w)
                     /\ chat'[c].msgs[i].saved = w[i].saved
                     /\ (w[i].role = User => chat'[c].msgs[i] = w[i])]_vars

\* C12 witness: a tick merged a failed status: the message is not saved, not
\* saving, carries the error, and the errors-store holds its one toast.
C12_Witness ==
  \E c \in DOMAIN chat : \E i \in 1..Len(chat[c].msgs) :
    LET m == chat[c].msgs[i] IN
    /\ ~m.saved /\ ~m.saving /\ m.error = DbDown
    /\ errors[c] = <<[messageId |-> m.id, stage |-> "save", error |-> DbDown]>>
    /\ ~Has(saveStatus, m.id)

\* C13: a tick that finds a history result stored for the current chat pops
\* it and emits exactly its payload as the messages, for the same chat, not
\* marked loading.
C13_HistoryReplaces ==
  [][\A c \in DOMAIN chat :
       (/\ Tick(c)
        /\ ~chat[c].null /\ chat[c].cur # NoChat
        /\ Has(histResult, chat[c].cur)) =>
         /\ chat'[c].msgs = histResult[chat[c].cur].payload
         /\ chat'[c].cur = chat[c].cur
         /\ ~chat'[c].null /\ ~chat'[c].loading
         /\ ~Has(histResult', chat[c].cur)]_vars

\* C13 witness: the state held a sent message and its placeholder, the load
\* returned the one stored message, and the tick left only that one.
C13_Witness ==
  \E c \in DOMAIN chat :
    /\ ~chat[c].null /\ chat[c].cur # NoChat /\ ~chat[c].loading
    /\ Len(log.loads[chat[c].cur]) = 1
    /\ Len(chat[c].msgs) = 1
    /\ chat[c].msgs[1].id = LoadedId /\ chat[c].msgs[1].saved
    /\ \E id \in DOMAIN buffers : id # LoadedId
    /\ nextId > 2

\* C14 as stated: a tick that finds a sessions result stored emits exactly
\* the loaded list as the sessions list.
C14_SessionsReplaced ==
  [][\A c \in DOMAIN chat :
       (Tick(c) /\ Has(histResult, SESSIONS)) =>
         /\ sessions'[c].set
         /\ sessions'[c].list = histResult[SESSIONS].payload]_vars

\* Position of the first x in q.
FirstAt(q, x) == CHOOSE i \in 1..Len(q) : q[i] = x /\ \A j \in 1..(i - 1) : q[j] # x

\* C14 amended: with no chat state the emitted list is the loaded list; with
\* a chat state it is the loaded list followed by the sessions of the store
\* that the loaded list lacks, each once, in the order of the store.
C14_SessionsMerged ==
  [][\A c \in DOMAIN chat :
       (Tick(c) /\ Has(histResult, SESSIONS)) =>
         LET loaded == histResult[SESSIONS].payload
             old == sessions[c].list
             new == sessions'[c].list
             rest == SubSeq(new, Len(loaded) + 1, Len(new))
         IN
         /\ sessions'[c].set
         /\ ~Has(histResult', SESSIONS)
         /\ IF chat[c].null
              THEN new = loaded
              ELSE /\ Len(new) >= Len(loaded)
                   /\ SubSeq(new, 1, Len(loaded)) = loaded
                   /\ SeqToSet(rest) = SeqToSet(old) \ SeqToSet(loaded)
                   /\ Cardinality(SeqToSet(rest)) = Len(rest)
                   /\ \A a, b \in 1..Len(rest) :
                        a < b => FirstAt(old, rest[a]) < FirstAt(old, rest[b])]_vars

\* C14 witness: the store listed a chat created after the load ran; the tick
\* merged the load and the chat is still listed, behind the loaded ones.
C14_Witness ==
  \E c \in DOMAIN chat :
    /\ Len(log.loads[SESSIONS]) = 1
    /\ sessions[c].list = <<"A", "B">>
    /\ db.sessions = <<"B", "A">>

\* The tick of client c changes the chat state: it merges a history result,
\* or pops a status of a message, or leaves some message different.
ChangesChat(c) ==
  \/ ~chat[c].null /\ chat[c].cur # NoChat /\ Has(histResult, chat[c].cur)
  \/ \E i \in 1..Len(chat[c].msgs) : Has(saveStatus, chat[c].msgs[i].id)
  \/ chat'[c].msgs # chat[c].msgs

\* C15 as stated: a tick emits a chat state only if it changed the chat
\* state, also when it merged a sessions result; every tick emits an interval.
C15_EmitOnlyIfChatChanged ==
  [][\A c \in DOMAIN chat :
       Tick(c) =>
         /\ Emits(c) => ChangesChat(c)
         /\ interval'[c] \in {FastMs, SlowMs}]_vars

\* C15 amended: a tick emits a chat state exactly when it changed the chat
\* state or merged a sessions result (never without a chat state); a tick
\* that emits none leaves chat state and errors as they were; every tick
\* emits an interval.
C15_EmitOnlyIfChanged ==
  [][\A c \in DOMAIN chat :
       Tick(c) =>
         /\ Emits(c) <=>
              /\ ~chat[c].null
              /\ ChangesChat(c) \/ Has(histResult, SESSIONS)
         /\ ~Emits(c) => chat'[c] = chat[c] /\ errors'[c] = errors[c]
         /\ Emits(c) => ~chat'[c].null /\ chat'[c].cur = chat[c].cur
         /\ interval'[c] \in {FastMs, SlowMs}]_vars

\* C15 witness: a chat was selected and is loading, nothing was sent, the
\* tick merged a sessions result only, and the chat state it emitted (the
\* same messages, no loading flag) is in the store.
C15_Witness ==
  \E c \in DOMAIN chat :
    /\ ~chat[c].null /\ chat[c].cur = "A" /\ ~chat[c].loading
    /\ chat[c].msgs = <<>> /\ nextId = 1
    /\ latestLoad["A"] = 1 /\ log.loads["A"] = <<>>
    /\ Len(log.loads[SESSIONS]) = 1

\* C16: a save of an assistant message is submitted only by a tick, and only
\* for a message whose buffer that tick found done.
C16_DoneBeforeSave ==
  [][\A s \in Submitted :
       (s.kind = "save" /\ s.role = Assistant) =>
         /\ Has(buffers, s.key) /\ buffers[s.key].done
         /\ \E c \in DOMAIN chat : Tick(c)]_vars

\* C16 witness: the save of a reply has run and stored the reply.
C16_Witness ==
  \E i \in 1..Len(db.rows) :
    /\ db.rows[i].role = Assistant /\ db.rows[i].content # <<>>
    /\ \E tid \in DOMAIN outcome :
         /\ outcome[tid].kind = "gen" /\ outcome[tid].err = None
         /\ buffers[outcome[tid].key].done
         /\ ReadAll(buffers[outcome[tid].key]) = db.rows[i].content

\* The store f without the entries of the ids outside `ids`.
Only(f, ids) == [x \in DOMAIN f \cap ids |-> f[x]]

\* C17: in every tick, the messages after the tick are the messages the tick
\* worked on, id by id (none added, none removed); every task it submits is a
\* save of one of them; it pops no status of another id and touches no
\* buffer; and what it emits is what it would emit if the buffers and
\* statuses of the ids outside the state did not exist.
C17_OnlyCurrentMessages ==
  [][\A c \in DOMAIN chat :
       (Tick(c) /\ ~chat[c].null) =>
         LET w == Working(c)
             ids == {w[i].id : i \in 1..Len(w)}
             full == TickOut(chat[c], errors[c], sessions[c], buffers,
                             saveStatus, histResult, nextTid)
             own == TickOut(chat[c], errors[c], sessions[c],
                            Only(buffers, ids), Only(saveStatus, ids),
                            histResult, nextTid)
         IN
         /\ Len(chat'[c].msgs) = Len(w)
         /\ \A i \in 1..Len(w) :
              /\ chat'[c].msgs[i].id = w[i].id
              /\ chat'[c].msgs[i].role = w[i].role
              /\ chat'[c].msgs[i].order = w[i].order
         /\ \A s \in Submitted : s.kind = "save" /\ s.key \in ids
         /\ DOMAIN saveStatus \ DOMAIN saveStatus' \subseteq ids
         /\ buffers' = buffers
         /\ full.chat = own.chat /\ full.errors = own.errors
         /\ full.submit = own.submit /\ full.interval = own.interval
         /\ chat'[c] = own.chat]_vars

\* C17 witness: the history merge dropped the sent message and its
\* placeholder; the reply's buffer is done with content, the sent message's
\* status is stored, neither id is in the state, and nothing was saved for
\* the reply.
C17_Witness ==
  \E c \in DOMAIN chat :
    LET ids == {chat[c].msgs[i].id : i \in 1..Len(chat[c].msgs)} IN
    /\ ~chat[c].null /\ chat[c].cur # NoChat
    /\ Len(log.loads[chat[c].cur]) = 1
    /\ tasks = <<>>
    /\ \E id \in DOMAIN buffers \ ids :
         /\ buffers[id].done /\ buffers[id].error = None
         /\ ReadAll(buffers[id]) # <<>>
    /\ \E id \in DOMAIN saveStatus : id \notin ids
    /\ \A i \in 1..Len(db.rows) : db.rows[i].role = User
    /\ interval[c] = SlowMs

\* -------------------------------------------------- claims on send_message
Orders(ms) == {ms[i].order : i \in 1..Len(ms)}

\* C18: a send appends, in one step, the user message with order n and the
\* placeholder with order n + 1, where n is one more than the largest order
\* of the state (0 for no messages); orders 0..k-1 become 0..k+1.
C18_SendOrders ==
  [][\A c \in DOMAIN chat :
       (nextId' # nextId) =>
         LET old == chat[c].msgs
             new == chat'[c].msgs
             k == Len(old)
             n == IF old = <<>> THEN 0
                  ELSE 1 + CHOOSE o \in Orders(old) : \A x \in Orders(old) : x <= o
         IN
         /\ Len(new) = k + 2
         /\ SubSeq(new, 1, k) = old
         /\ new[k + 1].role = User /\ new[k + 1].order = n
         /\ new[k + 2].role = Assistant /\ new[k + 2].order = n + 1
         /\ new[k + 1].id # new[k + 2].id
         /\ (old = <<>>) => Orders(new) = {0, 1}
         /\ (Orders(old) = 0..(k - 1)) => Orders(new) = 0..(k + 1)]_vars

\* C18 witness: the state held orders 0 and 2; the send gave 3 and 4.
C18_Witness ==
  \E c \in DOMAIN chat :
    /\ Len(chat[c].msgs) = 4
    /\ [i \in 1..4 |-> chat[c].msgs[i].order] = <<0, 2, 3, 4>>
    /\ chat[c].msgs[3].id = 1 /\ chat[c].msgs[4].id = 2

\* ------------------------------------------- claims on failed generations
\* The generation task tid ran a work_fn whose endpoint call failed.
EndpointFailed(tid) ==
  /\ outcome[tid].kind = "gen"
  /\ \E e \in EndpointErrors : outcome[tid].text = ErrorReply(e)

\* C19: a generation whose endpoint call failed ends with the failure in the
\* error field of its buffer; no save is ever submitted for its message and
\* no row holds the failure text.
C19_FailureNotSaved ==
  \A tid \in DOMAIN outcome :
    EndpointFailed(tid) =>
      /\ \A j \in 1..Len(tasks) :
           ~(tasks[j].kind = "save" /\ tasks[j].key = outcome[tid].key)
      /\ \A sid \in DOMAIN outcome :
           ~(outcome[sid].kind = "save" /\ outcome[sid].key = outcome[tid].key)
      /\ \A i \in 1..Len(db.rows) : db.rows[i].content # outcome[tid].text
      /\ Finished(tid) => buffers[outcome[tid].key].error # None

\* C19 in the store: the failure text is a stored assistant message, and the
\* message of the state is marked saved with no error.
C19_Witness ==
  \E tid \in DOMAIN outcome :
    /\ EndpointFailed(tid)
    /\ \E i \in 1..Len(db.rows) :
         db.rows[i].role = Assistant /\ db.rows[i].content = outcome[tid].text
    /\ \E c \in DOMAIN chat : \E i \in 1..Len(chat[c].msgs) :
         /\ chat[c].msgs[i].id = outcome[tid].key
         /\ chat[c].msgs[i].saved /\ chat[c].msgs[i].error = None

\* ------------------------------------------------ claims on failed loads
\* The step is the end of a load task whose work_fn raised.
LoadFails ==
  \E tid \in DOMAIN outcome' \ DOMAIN outcome :
    outcome'[tid].kind = "load" /\ outcome'[tid].err # None

WorkerStep ==
  /\ nextTid' = nextTid /\ ops' = ops
  /\ runs' # runs \/ tasks' # tasks

\* C21: a step of a worker (generation, save, history load, sessions load)
\* leaves the chat transcript, the sessions list and the errors list of every
\* client as they were; only callbacks change them.
C21_WorkersOnlyPollStores ==
  [][WorkerStep => UNCHANGED <<chat, sessions, errors>>]_vars

\* A history load completed for the chat a client shows, with other messages
\* than the client's, and the client still shows its own.
C21_Witness ==
  \E c \in DOMAIN chat, tid \in DOMAIN outcome :
    /\ outcome[tid].kind = "load" /\ outcome[tid].err = None
    /\ ~chat[c].null /\ outcome[tid].key = chat[c].cur
    /\ Has(histResult, chat[c].cur)
    /\ histResult[chat[c].cur].payload # chat[c].msgs
    /\ chat[c].msgs # <<>>

\* ------------------------------------------------ claims on chat titles
\* The last title call was for a chat with a first user message, it got as
\* far as the text-generation call (two stored messages, no database error),
\* and that call raised or replied nothing usable.
TitleGenerationFailed ==
  /\ result.fn = "generate_chat_title"
  /\ UserRows(db, result.chat) # <<>>
  /\ Len(TitleContext(db, result.chat)) >= 2 /\ ~result.dbErr
  /\ result.llm.raises \/ Strip(result.llm.text) = <<>>

\* C22: when title generation fails for a chat that has a first user
\* message, the title stored and returned is the truncation of that message
\* (at most 30 signs, "..." after a longer one).
C22_TitleFallback ==
  TitleGenerationFailed =>
    /\ result.title = FallbackTitle(UserRows(db, result.chat)[1].content)
    /\ titles[result.chat] = result.title

\* The text-generation call raised for a chat with two stored messages, the
\* database worked, and the title is "New Chat".
C22_Witness ==
  /\ TitleGenerationFailed
  /\ result.llm.raises
  /\ FallbackTitle(UserRows(db, result.chat)[1].content) # NewChatTitle
  /\ titles[result.chat] = NewChatTitle /\ result.title = NewChatTitle

\* ------------------------------------------- claims on the stores' size
\* Nothing is left to do: no task is queued or running, no callback will
\* come, and a tick of any client changes nothing.
Quiescent ==
  /\ tasks = <<>> /\ ops = 0
  /\ \A c \in DOMAIN chat :
       LET o == TickOut(chat[c], errors[c], sessions[c], buffers, saveStatus,
                        histResult, nextTid)
       IN  /\ o.chat = chat[c] /\ o.stat = saveStatus /\ o.hist = histResult
           /\ o.submit = <<>> /\ o.sessions = sessions[c]

\* The save of message id completed successfully.
SaveConfirmed(id) ==
  /\ Has(log.written, id)
  /\ \E n \in 1..Len(log.written[id]) : log.written[id][n].ok

\* C23: once nothing is left to do, no save status is stored any more for a
\* message whose save was confirmed (a final state stands for "eventually":
\* what is stored then stays stored for ever).
C23_StoresDrained ==
  Quiescent => \A id \in DOMAIN saveStatus : ~SaveConfirmed(id)

\* Nothing is left to do and the status of a confirmed save is still stored,
\* for a message that no client's chat state holds any more.
C23_Witness ==
  /\ Quiescent
  /\ \E id \in DOMAIN saveStatus :
       /\ SaveConfirmed(id) /\ saveStatus[id].ok
       /\ \A c \in DOMAIN chat :
            \A i \in 1..Len(chat[c].msgs) : chat[c].msgs[i].id # id

\* ------------------------------------------- claims on the request
\* The generation tasks that have posted their request.
Posted == {i \in 1..Len(tasks) : tasks[i].kind = "gen" /\ tasks[i].pc = "append"}

\* The transcript a client's last send captured (nothing changed the chat
\* state since): its last message but one is the user message just sent.
SentTranscript(c) == Transcript(chat[c].msgs)
JustSent(c) == SentTranscript(c)[Len(SentTranscript(c)) - 1]

\* C24: the request of a generation holds at most CHAT_CONTEXT_LIMIT messages
\* (5 when the setting is missing, not a number or not positive), none of
\* them empty or blank, they are the non-blank ones of some tail of the
\* transcript in order, and the last one is the user message just sent.
C24_RequestContext ==
  \A c \in DOMAIN chat, i \in Posted :
    LET req == tasks[i].request
        limit == IF env.limit.kind = "int" /\ env.limit.n >= 1
                   THEN env.limit.n ELSE 5
    IN  /\ Len(req) <= limit
        /\ \A n \in 1..Len(req) : ~Blank(req[n].content)
        /\ \E k \in 0..Len(SentTranscript(c)) :
             req = SelectSeq(LastN(SentTranscript(c), k),
                             LAMBDA m : ~Blank(m.content))
        /\ req # <<>> /\ req[Len(req)] = JustSent(c)

\* With CHAT_CONTEXT_LIMIT = 1 and a plain text sent, the request posted is
\* empty.
C24_Witness ==
  \E c \in DOMAIN chat, i \in Posted :
    /\ env.limit = Number(1)
    /\ ~Blank(JustSent(c).content) /\ JustSent(c).role = User
    /\ tasks[i].request = <<>>

\* ------------------------------------------- claims on the chat-cache
\* C25: after every update of the chat-cache it holds at most 10 chats and
\* no entry older than the time to live.
C25_CacheCapped ==
  [][\A c \in DOMAIN chat :
       cacheAt'[c] # cacheAt[c] =>
         /\ Cardinality(DOMAIN cacheAt'[c]) <= 10
         /\ \A k \in DOMAIN cacheAt'[c] : now' - cacheAt'[c][k] <= CacheTtlMs]_vars

\* An update left eleven or more chats in the cache, all within the time to
\* live.
C25_Witness ==
  \E c \in DOMAIN chat :
    /\ ops < MaxOps
    /\ Cardinality(DOMAIN cacheAt[c]) > 10
    /\ \E k \in DOMAIN cacheAt[c] : cacheAt[c][k] = now
    /\ \A k \in DOMAIN cacheAt[c] : now - cacheAt[c][k] <= CacheTtlMs

\* --------------------------------------- claims on the sessions list
\* The chats new_chat created.
Created == SeqToSet(db.sessions) \ {FirstChat}

\* C26: a chat that new_chat put into the sessions list is still in the list
\* after every step, a tick that merges a sessions result without it
\* included; and the step that takes a sessions result from the store (a
\* tick) leaves a list that starts with the loaded sessions in loaded order.
C26_OptimisticSessionStays ==
  [][\A c \in DOMAIN chat :
       /\ \A id \in Created :
            id \in SeqToSet(sessions[c].list) =>
              id \in SeqToSet(sessions'[c].list)
       /\ (Has(histResult, SESSIONS) /\ ~Has(histResult', SESSIONS))
            => SubSeq(sessions'[c].list, 1, Len(histResult[SESSIONS].payload))
                 = histResult[SESSIONS].payload]_vars

\* A sessions load ran before new_chat created a chat; the tick after it
\* merged the load, and the list holds the loaded chat first and the created
\* one behind it.
C26_Witness ==
  \E c \in DOMAIN chat, id \in Created :
    /\ log.loads[SESSIONS] # <<>>
    /\ ~chat[c].null /\ chat[c].cur = id
    /\ Len(sessions[c].list) = 2
    /\ sessions[c].list[1] = FirstChat /\ sessions[c].list[2] = id

\* ------------------------------------------------ claims on the reply
\* The generations that returned a non-empty text without error.
Replied ==
  {tid \in DOMAIN outcome :
     /\ outcome[tid].kind = "gen" /\ outcome[tid].err = None
     /\ outcome[tid].text # <<>>}

\* A save task was submitted for message id and has run.
SaveRan(id) ==
  \E tid \in DOMAIN outcome :
    outcome[tid].kind = "save" /\ outcome[tid].key = id

\* C27: once nothing is left to do, a save was submitted for the assistant
\* message of every generation that returned a non-empty text, the user
\* being still on the chat of the send (a send is the last callback of a
\* run here, so the user never leaves that chat).
C27_ReplySaved ==
  Quiescent => \A tid \in Replied : SaveRan(outcome[tid].key)

\* Nothing is left to do, a generation returned its text into a buffer that
\* is done, the history merge removed the placeholder from the chat the user
\* is still on, and no save of the reply was ever submitted.
C27_Witness ==
  /\ Quiescent
  /\ \E tid \in Replied, c \in DOMAIN chat :
       /\ buffers[outcome[tid].key].done
       /\ ReadAll(buffers[outcome[tid].key]) = outcome[tid].text
       /\ ~SaveRan(outcome[tid].key)
       /\ log.loads[chat[c].cur] # <<>>
       /\ \A i \in 1..Len(chat[c].msgs) : chat[c].msgs[i].id # outcome[tid].key

\* ------------------------------------------- claims on save submissions
\* The save tasks submitted so far for message id: those that ran and those
\* still queued.
SavesFor(id) ==
  {tid \in DOMAIN outcome : outcome[tid].kind = "save" /\ outcome[tid].key = id}
    \cup {tasks[i].tid : i \in {n \in 1..Len(tasks) :
                                  tasks[n].kind = "save" /\ tasks[n].key = id}}

\* Message ids are handed out in pairs: the user message, then its reply.
UserIds == {id \in 1..(nextId - 1) : id % 2 = 1}
AssistantIds == {id \in 1..(nextId - 1) : id % 2 = 0}

\* C28: at most one save task is ever submitted for an assistant message id,
\* and exactly one for a user message id.
C28_OneSavePerMessage ==
  /\ \A id \in AssistantIds : Cardinality(SavesFor(id)) <= 1
  /\ \A id \in UserIds : Cardinality(SavesFor(id)) = 1

\* Two save tasks were submitted for one assistant message.
C28_Witness ==
  \E id \in AssistantIds :
    /\ Cardinality(SavesFor(id)) = 2
    /\ buffers[id].done /\ buffers[id].error = None

\* ------------------------------------------- claims on the saved content
\* The text the generation of message id returned.
Returned(id) ==
  LET tid == CHOOSE x \in DOMAIN outcome :
               outcome[x].kind = "gen" /\ outcome[x].key = id
  IN  outcome[tid].text

\* C29: every save task of an assistant message carries the final content
\* of the message's buffer: the buffer is done and the content of the task is
\* all of it, the text the generation returned, also when the generation
\* finished between the tick's read_all() and its is_done check.
C29_SavesFinalContent ==
  \A i \in 1..Len(tasks) :
    (tasks[i].kind = "save" /\ tasks[i].role = Assistant) =>
      /\ buffers[tasks[i].key].done
      /\ tasks[i].content = ReadAll(buffers[tasks[i].key])
      /\ tasks[i].content = Returned(tasks[i].key)

\* A tick was raced by the generation before the reply was appended: the
\* buffer is done and holds the reply, the tick read nothing and queued no
\* save, and the message of the chat state is still empty.
C29_Witness ==
  \E c \in DOMAIN chat : \E n \in 1..Len(chat[c].msgs) :
    LET m == chat[c].msgs[n] IN
    /\ result.fn = "tick" /\ result.id = m.id /\ result.read = <<>>
    /\ m.role = Assistant /\ Has(buffers, m.id)
    /\ buffers[m.id].done /\ ReadAll(buffers[m.id]) # <<>>
    /\ m.content = <<>> /\ ~m.saving /\ ~m.saved
    /\ interval[c] = FastMs
    /\ SavesFor(m.id) = {}

\* ------------------------------------------- claims on the loading flag
\* Client c shows a chat whose latest history load (queued by select_chat)
\* no tick has merged yet.
LoadOutstanding(c) ==
  /\ ~chat[c].null /\ chat[c].cur # NoChat
  /\ latestLoad[chat[c].cur] > 0
  /\ latestLoad[chat[c].cur] \notin SeqToSet(log.loads[chat[c].cur])

\* C30: from select_chat until a tick merges the history result of the chat,
\* the chat state in the store is marked loading, whichever callback wrote it.
C30_LoadingKept ==
  \A c \in DOMAIN chat : LoadOutstanding(c) => chat[c].loading

\* A message was sent in a chat whose history load is still queued: the chat
\* state holds the message and is not marked loading.
C30_Witness ==
  \E c \in DOMAIN chat :
    /\ LoadOutstanding(c) /\ ~chat[c].loading
    /\ chat[c].msgs # <<>>
    /\ \E i \in 1..Len(tasks) :
         tasks[i].kind = "load" /\ tasks[i].key = chat[c].cur

\* ---------------------------------------------------------------- C31
\* C31: applying the outputs of a tick never changes which chat is current,
\* whatever select_chat, new_chat or confirm_delete did to the chat state
\* while the tick was running on the older snapshot.
C31_TickKeepsCurrentChat ==
  [][\A c \in Clients :
       (inflight[c].on /\ ~inflight'[c].on) =>
         chat'[c].cur = chat[c].cur]_vars

\* The browser applied the outputs of a tick over the chat state of another
\* chat than the one the tick ran on.
C31_Witness ==
  \E c \in Clients :
    /\ ~inflight[c].on
    /\ inflight[c].over # NoChat
    /\ ~chat[c].null
    /\ chat[c].cur # NoChat
    /\ chat[c].cur # inflight[c].over

\* ---------------------------------------------------------------- C32
\* C32: once confirm_delete has taken a session off the sessions list, no
\* tick (no step other than a callback of the user or the sessions timer)
\* puts it back.
C32_DeletedStaysDeleted ==
  [][ops' = ops =>
       \A c \in Clients : \A id \in deleted[c] :
         id \notin SeqToSet(sessions[c].list) =>
           id \notin SeqToSet(sessions'[c].list)]_vars

\* A session confirm_delete removed is on the list again after a sessions
\* load was merged, and was not created anew (it is not the current chat).
C32_Witness ==
  \E c \in Clients : \E id \in deleted[c] :
    /\ id \in SeqToSet(sessions[c].list)
    /\ chat[c].cur # id
    /\ log.loads[SESSIONS] # <<>>

\* ---------------------------------------------------------------- C33
\* C33: send_message with an empty text, or with no chat state or no current
\* chat, is a no-op: no save and no generation task is submitted, no message
\* id is created, no buffer is made, and the chat state, the errors list and
\* the input value stay as they are.
C33_IgnoredSendIsNoOp ==
  [][\A c \in Clients :
       (ops' # ops
          /\ (input[c] = <<>> \/ chat[c].null \/ chat[c].cur = NoChat)) =>
         /\ tasks' = tasks /\ nextTid' = nextTid
         /\ nextId' = nextId /\ buffers' = buffers
         /\ chat'[c] = chat[c]
         /\ errors'[c] = errors[c]
         /\ input'[c] = input[c]]_vars

\* A send was accepted and emptied the input box, and a second send_message,
\* on the empty text with the chat selected, left the two tasks and the two
\* message ids of the first as they were.
C33_Witness ==
  \E c \in Clients :
    /\ ops = MaxOps - 2
    /\ input[c] = <<>>
    /\ chat[c].cur = FirstChat
    /\ nextId = 3
    /\ Len(tasks) = 2

\* ---------------------------------------------------------------- C34
\* C34: every request the Streamlit app sends to the agent endpoint holds
\* exactly one system message, at position 0, however many turns the
\* session has had.
C34_OneSystemMessage ==
  (result.fn = "generate_bot_response" /\ result.sent) =>
    /\ result.request[1].role = System
    /\ Len(SelectSeq(result.request, LAMBDA m : m.role = System)) = 1

\* The request of a second turn of the session: it holds the first turn's
\* prompt and answer, and the system prompt inserted for the first turn is
\* still in the list.
C34_Witness ==
  /\ result.fn = "generate_bot_response"
  /\ result.sent
  /\ Len(SelectSeq(session.chat_messages, LAMBDA m : m.role = System)) = 2
  /\ Len(SelectSeq(result.request, LAMBDA m : m.role = User)) >= 2

\* ---------------------------------------------------------------- C35
\* C35: every run of the multi-agent graph from the supervisor reaches
\* final_answer and then END, after at most MAX_ITERATIONS worker
\* invocations; and whenever the model, asked by the supervisor, returns
\* FINISH or the worker that just ran, the supervisor routes to final_answer.
C35_GraphTerminates ==
  /\ [](graph.workers <= MaxIterations)
  /\ []((graph.ran = "supervisor" /\ graph.chose # None
           /\ (graph.chose = FinishNode \/ graph.chose = graph.before))
          => graph.node = "final_answer")
  /\ [](graph.node = EndNode => graph.ran = "final_answer")
  /\ <>[](graph.node = EndNode)

\* A run that ended after MAX_ITERATIONS worker invocations: the supervisor
\* was called a fourth time and finished without asking the model.
C35_Witness ==
  /\ graph.node = EndNode
  /\ graph.workers = MaxIterations
  /\ graph.chose = None
  /\ graph.iteration_count = MaxIterations

====
